---- MODULE Spec2Model ----
(***************************************************************************)
(* A model of greenbriar_scribe: the local cleaning pipeline of            *)
(* Scribe.process_pdf (core.py) and the pure functions it is built from    *)
(* (clean.py, layout.py, segment.py, utils.py).                            *)
(*                                                                         *)
(* Text is a sequence of one-character strings, so that the regular        *)
(* expressions of the source are modelled by what they match, character by *)
(* character; characters outside ASCII go by their names.  Python's None   *)
(* is the empty tuple.  Floating-point values are exact rationals          *)
(* <<numerator, denominator>>.                                             *)
(*                                                                         *)
(* Specifications:                                                         *)
(*   SpecPdf       process_pdf from the page scan to the last page record  *)
(*   SpecRun       process_pdf from mode resolution on, with OCR           *)
(*   SpecScan      the same on scanned pages of every sort, with a page    *)
(*                 limit for OCR                                           *)
(*   SpecSized     the page loop on blocks set in different font sizes     *)
(*   SpecFramed    the page loop on pages framed by a header and a footer  *)
(*   SpecText      dehyphenate_text, and the cleaning of one block's text  *)
(*   SpecLayout    order_blocks                                            *)
(*   SpecDetect    detect_header_footer_lines                              *)
(*   SpecClassify  classify_role                                           *)
(*   SpecRemote    pdf_to_markdown (simpletex.py), and FairSpecRemote, the *)
(*                 same under weak fairness of its steps                   *)
(***************************************************************************)
EXTENDS Integers, Sequences, FiniteSets, TLC

VARIABLES
    pc,              \* position of process_pdf: "resolve", "scan", "ocr", "detect",
                     \* "page", "block", "done"; "simpletex" once the run is
                     \* handed to _process_simpletex, "raised" once it has
                     \* raised; "idle" when it is not running
    doc,             \* the opened document: the extracted pages, in page order
    opts,            \* ScribeOptions, read once and immutable for the run
    pages_data,      \* core.py:100  pages_data
    warnings,        \* core.py:61   warnings
    repeated_lines,  \* core.py:174  repeated_lines
    page_i,          \* index into pages_data of the page the second loop is on
    blocks,          \* core.py:194  blocks of that page, after reordering
    block_i,         \* index into blocks of the next block
    median_size,     \* core.py:199  median_size
    segment_index,   \* core.py:204  segment_index
    page_paragraphs, \* core.py:203  page_paragraphs
    segments,        \* core.py:187  segments
    pages_records,   \* core.py:188  pages_records
    ocr_images,      \* core.py:101  ocr_images: the rendered pages queued for OCR
    ocr_indices,     \* core.py:102  ocr_indices
    ocr_pages_used,  \* core.py:104  ocr_pages_used
    ocr_enabled,     \* core.py:83   ocr_enabled
    mode,            \* core.py:64   mode
    env,             \* what is installed: [simpletex_available, ocr_available]
    error,           \* the exception process_pdf has raised, <<type, message>>;
                     \* None if none
    remote,          \* the locals of SimpleTexMarkdownBackend.pdf_to_markdown
    fn,              \* the pure function under call ("none" inside process_pdf)
    args,            \* its arguments
    ret              \* [returned, value]: whether it has returned, and what

vars == <<pc, doc, opts, pages_data, warnings, repeated_lines, page_i, blocks,
          block_i, median_size, segment_index, page_paragraphs, segments,
          pages_records, ocr_images, ocr_indices, ocr_pages_used, ocr_enabled, mode, env,
          error, remote, fn, args, ret>>

pdfVars == <<pc, doc, opts, pages_data, warnings, repeated_lines, page_i, blocks,
             block_i, median_size, segment_index, page_paragraphs, segments,
             pages_records, ocr_images, ocr_indices, ocr_pages_used, ocr_enabled, mode, env,
             error, remote>>

callVars == <<fn, args, ret>>

None == <<>>

(***************************************************************************)
(* Characters and character classes of the regular expressions.            *)
(***************************************************************************)
NL == "\n"
SP == " "
TAB == "\t"

\* [a-zA-Z]
Letter == {"a","b","c","d","e","f","g","h","i","j","k","l","m","n","o","p","q",
           "r","s","t","u","v","w","x","y","z",
           "A","B","C","D","E","F","G","H","I","J","K","L","M","N","O","P","Q",
           "R","S","T","U","V","W","X","Y","Z"}

\* \d
Digit == {"0","1","2","3","4","5","6","7","8","9"}

\* [A-Za-z0-9]
AlnumChar == Letter \cup Digit

\* \s
Whitespace == {SP, TAB, NL, "\r", "\f"}

(***************************************************************************)
(* Generic sequence helpers (Python built-ins).                            *)
(***************************************************************************)
Min2(a, b) == IF a <= b THEN a ELSE b
Max2(a, b) == IF a >= b THEN a ELSE b

\* s[from-1 : to] in Python terms: the elements from..to, 1-based, inclusive.
Slice(s, from, to) == IF from > to THEN <<>> ELSE SubSeq(s, from, to)

RECURSIVE Concat(_)
\* "".join(parts)
Concat(parts) ==
    IF parts = <<>> THEN <<>> ELSE Head(parts) \o Concat(Tail(parts))

RECURSIVE Join(_, _)
\* sep.join(parts)
Join(parts, sep) ==
    IF parts = <<>> THEN <<>>
    ELSE IF Len(parts) = 1 THEN parts[1]
    ELSE parts[1] \o sep \o Join(Tail(parts), sep)

RECURSIVE SplitFrom(_, _, _)
SplitFrom(text, sepChar, cur) ==
    IF text = <<>> THEN <<cur>>
    ELSE IF Head(text) = sepChar
         THEN <<cur>> \o SplitFrom(Tail(text), sepChar, <<>>)
         ELSE SplitFrom(Tail(text), sepChar, Append(cur, Head(text)))

\* text.split(sepChar): never empty, "" splits into [""]
Split(text, sepChar) == SplitFrom(text, sepChar, <<>>)

\* <<1, ..., n>>
Indices(n) == SubSeq([i \in 1..n |-> i], 1, n)

\* text.lstrip(): from the first character that is not whitespace.  (Written
\* without recursion, like CollapseWs below, so that a long text costs no
\* deep evaluation.)
LStrip(text) ==
    LET keep == {i \in 1..Len(text) : text[i] \notin Whitespace}
    IN IF keep = {} THEN <<>>
       ELSE SubSeq(text, CHOOSE i \in keep : \A j \in keep : i <= j, Len(text))

\* text.rstrip(): up to the last character that is not whitespace
RStrip(text) ==
    LET keep == {i \in 1..Len(text) : text[i] \notin Whitespace}
    IN IF keep = {} THEN <<>>
       ELSE SubSeq(text, 1, CHOOSE i \in keep : \A j \in keep : i >= j)

\* text.strip()
Strip(text) == RStrip(LStrip(text))

\* sub in text (substring test)
Contains(text, sub) ==
    \E i \in 1..(Len(text) - Len(sub) + 1) : SubSeq(text, i, i + Len(sub) - 1) = sub

(***************************************************************************)
(* utils.py                                                                *)
(***************************************************************************)
\* re.sub(r"\s+", " ", text): every maximal run of whitespace becomes one
\* space, i.e. the first character of a run becomes a space and the others go
CollapseWs(text) ==
    LET kept == SelectSeq(Indices(Len(text)),
                          LAMBDA i : \/ text[i] \notin Whitespace
                                     \/ i = 1
                                     \/ text[i - 1] \notin Whitespace)
    IN SubSeq([j \in 1..Len(kept) |->
                  IF text[kept[j]] \in Whitespace THEN SP ELSE text[kept[j]]],
              1, Len(kept))

\* utils.normalize_line
normalize_line(text) == Strip(CollapseWs(text))

\* utils.remove_whitespace
remove_whitespace(text) ==
    SelectSeq(text, LAMBDA c : c \notin Whitespace)

(***************************************************************************)
(* Small regular-expression pieces shared by the patterns below.           *)
(***************************************************************************)
RECURSIVE SkipDigits(_)
\* text after its leading run of digits
SkipDigits(text) ==
    IF text # <<>> /\ Head(text) \in Digit THEN SkipDigits(Tail(text)) ELSE text

\* text starts with \d
StartsWithDigit(text) == text # <<>> /\ Head(text) \in Digit

\* (?i)page at the start of text
StartsWithPage(text) ==
    /\ Len(text) >= 4
    /\ text[1] \in {"p", "P"} /\ text[2] \in {"a", "A"}
    /\ text[3] \in {"g", "G"} /\ text[4] \in {"e", "E"}

\* utils.is_page_number
is_page_number(text) ==
    LET stripped == normalize_line(text)
        \* re.fullmatch(r"\d{1,4}", stripped)
        bare == /\ Len(stripped) \in 1..4
                /\ \A i \in 1..Len(stripped) : stripped[i] \in Digit
        \* re.fullmatch(r"(?i)page\s+\d+(\s*/\s*\d+)?", stripped)
        paged ==
            /\ StartsWithPage(stripped)
            /\ LET r1 == SubSeq(stripped, 5, Len(stripped))
                   r2 == LStrip(r1)
                   r3 == SkipDigits(r2)
               IN /\ r1 # <<>> /\ Head(r1) \in Whitespace
                  /\ StartsWithDigit(r2)
                  /\ \/ r3 = <<>>
                     \/ LET r4 == LStrip(r3)
                        IN /\ r4 # <<>> /\ Head(r4) = "/"
                           /\ StartsWithDigit(LStrip(Tail(r4)))
                           /\ SkipDigits(LStrip(Tail(r4))) = <<>>
    IN IF stripped = <<>> THEN FALSE ELSE bare \/ paged

(***************************************************************************)
(* clean.py: text normalisation and paragraph merging                      *)
(***************************************************************************)
RECURSIVE dehyphenate_text(_)
\* clean.dehyphenate_text: re.sub(r"([A-Za-z0-9])-\n([A-Za-z])", r"\1\2", text).
\* re.sub scans left to right and replaces non-overlapping matches: after a
\* match the scan resumes behind the matched letter.
dehyphenate_text(text) ==
    IF text = <<>> THEN <<>>
    ELSE IF /\ Len(text) >= 4
            /\ text[1] \in AlnumChar /\ text[2] = "-" /\ text[3] = NL
            /\ text[4] \in Letter
         THEN <<text[1], text[4]>> \o dehyphenate_text(SubSeq(text, 5, Len(text)))
         ELSE <<Head(text)>> \o dehyphenate_text(Tail(text))

RECURSIVE CollapseBlanks(_)
\* re.sub(r"[ \t]+", " ", text)
CollapseBlanks(text) ==
    IF text = <<>> THEN <<>>
    ELSE IF Head(text) \in {SP, TAB}
         THEN LET rest == CollapseBlanks(Tail(text))
              IN IF Len(text) >= 2 /\ text[2] \in {SP, TAB} THEN rest
                 ELSE <<SP>> \o rest
         ELSE <<Head(text)>> \o CollapseBlanks(Tail(text))

\* the length of the maximal run of whitespace text starts with
WsRunLen(text) == Len(text) - Len(LStrip(text))

\* the position of the last newline among the first n characters, 0 if none
LastNewline(text, n) ==
    LET at == {i \in 1..n : text[i] = NL}
    IN IF at = {} THEN 0 ELSE CHOOSE i \in at : \A j \in at : j <= i

\* the position of the first newline among the first n characters, 0 if none
FirstNewline(text, n) ==
    LET at == {i \in 1..n : text[i] = NL}
    IN IF at = {} THEN 0 ELSE CHOOSE i \in at : \A j \in at : j >= i

RECURSIVE StripBeforeNewline(_)
\* re.sub(r"\s+\n", "\n", text): in a run of whitespace, \s+ is greedy and
\* backtracks to the run's last newline, so the run up to and including that
\* newline becomes one newline (if at least one character precedes it).
StripBeforeNewline(text) ==
    IF text = <<>> THEN <<>>
    ELSE IF Head(text) \in Whitespace
         THEN LET n == WsRunLen(text)
                  j == LastNewline(text, n)
              IN IF j >= 2
                 THEN <<NL>> \o StripBeforeNewline(SubSeq(text, j + 1, Len(text)))
                 ELSE SubSeq(text, 1, n)
                      \o StripBeforeNewline(SubSeq(text, n + 1, Len(text)))
         ELSE <<Head(text)>> \o StripBeforeNewline(Tail(text))

RECURSIVE StripAfterNewline(_)
\* re.sub(r"\n\s+", "\n", text): from the first newline of a run of
\* whitespace, the rest of the run (if any) is dropped.
StripAfterNewline(text) ==
    IF text = <<>> THEN <<>>
    ELSE IF Head(text) \in Whitespace
         THEN LET n == WsRunLen(text)
                  j == FirstNewline(text, n)
              IN IF j >= 1 /\ j < n
                 THEN SubSeq(text, 1, j)
                      \o StripAfterNewline(SubSeq(text, n + 1, Len(text)))
                 ELSE SubSeq(text, 1, n)
                      \o StripAfterNewline(SubSeq(text, n + 1, Len(text)))
         ELSE <<Head(text)>> \o StripAfterNewline(Tail(text))

\* clean.normalize_whitespace
normalize_whitespace(text) ==
    Strip(StripAfterNewline(StripBeforeNewline(CollapseBlanks(text))))

\* [\-*\u2022]: the bullet glyphs of the list-item pattern (a non-ASCII
\* character is written by its name)
BulletChar == {"-", "*", "BULLET"}

\* clean._is_list_item / segment._is_list_item:
\* re.match(r"^([\-*\u2022]|\d+\.|\d+\)|[a-zA-Z]\))\s+", text)
is_list_item(text) ==
    LET afterMarker(rest) == rest # <<>> /\ Head(rest) \in Whitespace
        d == SkipDigits(text)
    IN \/ text # <<>> /\ Head(text) \in BulletChar /\ afterMarker(Tail(text))
       \/ /\ StartsWithDigit(text)
          /\ d # <<>> /\ Head(d) \in {".", ")"} /\ afterMarker(Tail(d))
       \/ /\ Len(text) >= 2 /\ text[1] \in Letter /\ text[2] = ")"
          /\ afterMarker(SubSeq(text, 3, Len(text)))

\* the sentence terminators of clean._ends_sentence
SentenceEnd == {".", "!", "?", "IDEOGRAPHIC_FULL_STOP", "FULLWIDTH_EXCLAMATION",
                "FULLWIDTH_QUESTION"}

\* A test for the end of a sentence that every line passes.
EndsAlways(line) == TRUE

\* clean._ends_sentence: re.search(r"[...]\s*$", line)
ends_sentence(line) ==
    LET t == RStrip(line) IN t # <<>> /\ t[Len(t)] \in SentenceEnd

\* " ".join(buffer).strip()
FlushBuffer(buffer) == Strip(Join(buffer, <<SP>>))

RECURSIVE MergeLoopKeepingBuffer(_, _, _)
\* A merger that emits a list item without closing the paragraph before it.
MergeLoopKeepingBuffer(lines, paragraphs, buffer) ==
    IF lines = <<>>
    THEN IF buffer # <<>> THEN Append(paragraphs, FlushBuffer(buffer)) ELSE paragraphs
    ELSE LET stripped == Strip(Head(lines))
             flushed == IF buffer # <<>> THEN Append(paragraphs, FlushBuffer(buffer))
                        ELSE paragraphs
         IN IF stripped = <<>>
            THEN MergeLoopKeepingBuffer(Tail(lines), flushed, <<>>)
            ELSE IF is_list_item(stripped)
            THEN MergeLoopKeepingBuffer(Tail(lines), Append(paragraphs, stripped), buffer)
            ELSE IF buffer # <<>> /\ ends_sentence(buffer[Len(buffer)])
            THEN MergeLoopKeepingBuffer(Tail(lines),
                                        Append(paragraphs, FlushBuffer(buffer)),
                                        <<stripped>>)
            ELSE MergeLoopKeepingBuffer(Tail(lines), paragraphs, Append(buffer, stripped))

RECURSIVE MergeLoopDroppingSentence(_, _, _)
\* A merger that starts a new paragraph after a finished sentence without
\* emitting the sentence.
MergeLoopDroppingSentence(lines, paragraphs, buffer) ==
    IF lines = <<>>
    THEN IF buffer # <<>> THEN Append(paragraphs, FlushBuffer(buffer)) ELSE paragraphs
    ELSE LET stripped == Strip(Head(lines))
             flushed == IF buffer # <<>> THEN Append(paragraphs, FlushBuffer(buffer))
                        ELSE paragraphs
         IN IF stripped = <<>>
            THEN MergeLoopDroppingSentence(Tail(lines), flushed, <<>>)
            ELSE IF is_list_item(stripped)
            THEN MergeLoopDroppingSentence(Tail(lines), Append(flushed, stripped), <<>>)
            ELSE IF buffer # <<>> /\ ends_sentence(buffer[Len(buffer)])
            THEN MergeLoopDroppingSentence(Tail(lines), paragraphs, <<stripped>>)
            ELSE MergeLoopDroppingSentence(Tail(lines), paragraphs,
                                           Append(buffer, stripped))

RECURSIVE MergeLoop(_, _, _)
\* the loop of clean.merge_lines_into_paragraphs over the remaining lines
MergeLoop(lines, paragraphs, buffer) ==
    IF lines = <<>>
    THEN IF buffer # <<>> THEN Append(paragraphs, FlushBuffer(buffer)) ELSE paragraphs
    ELSE LET stripped == Strip(Head(lines))
             flushed == IF buffer # <<>> THEN Append(paragraphs, FlushBuffer(buffer))
                        ELSE paragraphs
         IN IF stripped = <<>>
            THEN MergeLoop(Tail(lines), flushed, <<>>)
            ELSE IF is_list_item(stripped)
            THEN MergeLoop(Tail(lines), Append(flushed, stripped), <<>>)
            ELSE IF buffer # <<>> /\ ends_sentence(buffer[Len(buffer)])
            THEN MergeLoop(Tail(lines), Append(paragraphs, FlushBuffer(buffer)),
                           <<stripped>>)
            ELSE MergeLoop(Tail(lines), paragraphs, Append(buffer, stripped))

\* clean.merge_lines_into_paragraphs
merge_lines_into_paragraphs(lines) ==
    SelectSeq(MergeLoop(lines, <<>>, <<>>), LAMBDA p : p # <<>>)

\* segment.split_block_to_paragraphs
split_block_to_paragraphs(text) == merge_lines_into_paragraphs(Split(text, NL))

(***************************************************************************)
(* Exact rational arithmetic for the floating-point values of layout.py.   *)
(* A rational is <<n, d>> with d > 0, in lowest terms.                     *)
(***************************************************************************)
Abs(n) == IF n < 0 THEN -n ELSE n

RECURSIVE Gcd(_, _)
Gcd(a, b) == IF b = 0 THEN a ELSE Gcd(b, a % b)

Rat(n, d) ==
    LET g == Gcd(Abs(n), d)
    IN IF n = 0 THEN <<0, 1>> ELSE <<n \div g, d \div g>>

RatInt(n) == <<n, 1>>

RatAdd(p, q) ==
    LET l == (p[2] \div Gcd(p[2], q[2])) * q[2]
    IN Rat(p[1] * (l \div p[2]) + q[1] * (l \div q[2]), l)

RatSub(p, q) == RatAdd(p, <<-q[1], q[2]>>)

RatMul(p, q) == Rat(p[1] * q[1], p[2] * q[2])

RatAbs(p) == <<Abs(p[1]), p[2]>>

\* p <= q for p, q >= 0, comparing integer parts first to keep products small
RatLeq(p, q) ==
    LET ip == p[1] \div p[2]
        iq == q[1] \div q[2]
    IN IF ip # iq THEN ip < iq
       ELSE (p[1] % p[2]) * q[2] <= (q[1] % q[2]) * p[2]

RatLess(p, q) == ~RatLeq(q, p)

RECURSIVE SumSeq(_)
\* sum(values) of integers
SumSeq(values) == IF values = <<>> THEN 0 ELSE Head(values) + SumSeq(Tail(values))

RECURSIVE InsertSorted(_, _)
\* x put behind every element of the sorted sequence that is <= x
InsertSorted(x, sorted) ==
    IF sorted = <<>> THEN <<x>>
    ELSE IF Head(sorted) <= x THEN <<Head(sorted)>> \o InsertSorted(x, Tail(sorted))
    ELSE <<x>> \o sorted

RECURSIVE SortInts(_)
\* sorted(values) of integers
SortInts(values) ==
    IF values = <<>> THEN <<>>
    ELSE InsertSorted(values[Len(values)], SortInts(SubSeq(values, 1, Len(values) - 1)))

(***************************************************************************)
(* layout.py: column clustering and reading order                          *)
(***************************************************************************)
\* layout.py:8  iterations=12
KMeansIterations == 12

\* layout.py:43  max_k=3
MaxK == 3

\* min(range(k), key=lambda i: abs(v - centroids[i])): the first nearest
\* centroid (cluster indices are 1-based here, 0-based in the source)
Nearest(v, centroids) ==
    LET dist(i) == RatAbs(RatSub(RatInt(v), centroids[i]))
    IN CHOOSE i \in 1..Len(centroids) :
          /\ \A j \in 1..Len(centroids) : RatLeq(dist(i), dist(j))
          /\ \A j \in 1..(i - 1) : RatLess(dist(i), dist(j))

RECURSIVE Assign(_, _)
\* [nearest centroid of v for v in values]
Assign(values, centroids) ==
    IF values = <<>> THEN <<>>
    ELSE <<Nearest(Head(values), centroids)>> \o Assign(Tail(values), centroids)

RECURSIVE ClusterOf(_, _, _)
\* the items assigned to cluster i, in their order
ClusterOf(items, assignments, i) ==
    IF items = <<>> THEN <<>>
    ELSE (IF Head(assignments) = i THEN <<Head(items)>> ELSE <<>>)
         \o ClusterOf(Tail(items), Tail(assignments), i)

RECURSIVE MeansFrom(_, _, _, _)
\* layout.py:21-26  the mean of each cluster from i on, the old centroid of an
\* empty one
MeansFrom(values, assignments, centroids, i) ==
    IF i > Len(centroids) THEN <<>>
    ELSE LET c == ClusterOf(values, assignments, i)
         IN <<IF c # <<>> THEN Rat(SumSeq(c), Len(c)) ELSE centroids[i]>>
            \o MeansFrom(values, assignments, centroids, i + 1)

\* layout.py:17-26  new_centroids
NewCentroids(values, centroids) ==
    MeansFrom(values, Assign(values, centroids), centroids, 1)

RECURSIVE KMeansLoop(_, _, _)
\* layout.py:16-29  at most `left` more iterations, stopping at a fixed point
KMeansLoop(values, centroids, left) ==
    IF left = 0 THEN centroids
    ELSE LET new == NewCentroids(values, centroids)
         IN IF new = centroids THEN centroids
            ELSE KMeansLoop(values, new, left - 1)

RECURSIVE Ones(_)
\* [0] * n (cluster indices are 1-based here)
Ones(n) == IF n = 0 THEN <<>> ELSE <<1>> \o Ones(n - 1)

RECURSIVE Seeds(_, _, _)
\* layout.py:15  [sorted_vals[int(i * (len(sorted_vals) - 1) / (k - 1))]
\*               for i in range(k)], from the i-th (1-based) on
Seeds(sorted_vals, k, i) ==
    IF i > k THEN <<>>
    ELSE <<RatInt(sorted_vals[((i - 1) * (Len(sorted_vals) - 1)) \div (k - 1) + 1])>>
         \o Seeds(sorted_vals, k, i + 1)

\* layout._kmeans_1d: [assignments, centroids]
kmeans_1d(values, k) ==
    IF values = <<>> THEN [assignments |-> <<>>, centroids |-> <<>>]
    ELSE IF k = 1
    THEN [assignments |-> Ones(Len(values)),
          centroids |-> <<Rat(SumSeq(values), Len(values))>>]
    ELSE LET centroids == KMeansLoop(values, Seeds(SortInts(values), k, 1),
                                     KMeansIterations)
         IN [assignments |-> Assign(values, centroids), centroids |-> centroids]

RECURSIVE InertiaFrom(_, _, _, _)
InertiaFrom(values, assignments, centroids, n) ==
    IF n > Len(values) THEN <<0, 1>>
    ELSE LET d == RatSub(RatInt(values[n]), centroids[assignments[n]])
         IN RatAdd(RatMul(d, d), InertiaFrom(values, assignments, centroids, n + 1))

\* layout._inertia
inertia(values, assignments, centroids) ==
    IF values = <<>> THEN <<0, 1>> ELSE InertiaFrom(values, assignments, centroids, 1)

\* inertia of the k-means clustering into k clusters (layout.py:48-49)
InertiaOfK(x0s, k) ==
    LET km == kmeans_1d(x0s, k) IN inertia(x0s, km.assignments, km.centroids)

\* An improvement test that does not set a zero inertia apart.
ImprovesFromZero(base, next_val) ==
    RatLeq(RatMul(<<5, 1>>, next_val), RatMul(<<4, 1>>, base))

\* layout.py:54-55  improvement >= 0.2, where improvement is
\* (base - next_val) / base if base > 0 else 0.0
Improves(base, next_val) ==
    /\ base[1] > 0
    /\ RatLeq(RatMul(<<5, 1>>, next_val), RatMul(<<4, 1>>, base))

RECURSIVE ChooseFrom(_, _, _)
\* layout.py:51-58  the loop from k on, with chosen = k so far
ChooseFrom(x0s, k, max_k) ==
    IF k >= max_k THEN k
    ELSE IF Improves(InertiaOfK(x0s, k), InertiaOfK(x0s, k + 1))
         THEN ChooseFrom(x0s, k + 1, max_k)
         ELSE k

\* A reconstructor that never splits a page into columns.
SingleColumn(x0s) == 1

\* layout.choose_column_count
choose_column_count(x0s) ==
    IF Len(x0s) < 4 THEN 1 ELSE ChooseFrom(x0s, 1, MaxK)

\* bool(bbox): a bounding box that is present (None and [] are falsy)
HasBBox(b) == b.bbox # <<>>

\* (b.get("bbox") or [0, 0, 0, 0])[1]
TopOf(b) == IF HasBBox(b) THEN b.bbox[2] ELSE 0

RECURSIVE InsertByTop(_, _)
InsertByTop(x, sorted) ==
    IF sorted = <<>> THEN <<x>>
    ELSE IF TopOf(Head(sorted)) <= TopOf(x)
         THEN <<Head(sorted)>> \o InsertByTop(x, Tail(sorted))
         ELSE <<x>> \o sorted

\* A sort that leaves the items as they come.
KeepOrder(items) == items

RECURSIVE SortByTop(_)
\* sorted(items, key=top of bbox): Python's sort is stable
SortByTop(items) ==
    IF items = <<>> THEN <<>>
    ELSE InsertByTop(items[Len(items)], SortByTop(SubSeq(items, 1, Len(items) - 1)))

\* layout.py:72  page_width > 0 and width / page_width >= 0.7
IsFullWidth(bbox, page_width) ==
    page_width > 0 /\ 10 * (bbox[3] - bbox[1]) >= 7 * page_width

RECURSIVE LeftEdges(_)
\* layout.py:77  [b["bbox"][0] for b in regular_blocks if b.get("bbox")]
LeftEdges(boxed) ==
    IF boxed = <<>> THEN <<>> ELSE <<Head(boxed).bbox[1]>> \o LeftEdges(Tail(boxed))

\* p <= q for rationals of either sign
RatLeqSigned(p, q) == RatSub(q, p)[1] >= 0

RECURSIVE OrderColumns(_, _, _, _)
\* layout.py:82-94  the columns in `left` (each the boxed blocks assigned to
\* it, sorted by top), by centroid, concatenated.  sorted() is stable: of two
\* columns with equal centroids the lower index goes first.
OrderColumns(boxed, assignments, centroids, left) ==
    IF left = {} THEN <<>>
    ELSE LET i == CHOOSE i \in left : \A j \in left :
                     \/ ~RatLeqSigned(centroids[j], centroids[i])
                     \/ (centroids[i] = centroids[j] /\ i <= j)
         IN SortByTop(ClusterOf(boxed, assignments, i))
            \o OrderColumns(boxed, assignments, centroids, left \ {i})

\* layout.order_blocks
order_blocks(blks, page_width) ==
    IF blks = <<>> THEN <<>>
    ELSE
    LET isTitle(b) == HasBBox(b) /\ IsFullWidth(b.bbox, page_width)
        title_blocks == SortByTop(SelectSeq(blks, isTitle))
        regular_blocks == SelectSeq(blks, LAMBDA b : ~isTitle(b))
        boxed == SelectSeq(regular_blocks, HasBBox)
        x0s == LeftEdges(boxed)
    IN IF x0s = <<>> THEN title_blocks \o regular_blocks
       ELSE LET k == choose_column_count(x0s)
                km == kmeans_1d(x0s, k)
            IN title_blocks
               \o OrderColumns(boxed, km.assignments, km.centroids, 1..k)

(***************************************************************************)
(* clean.py: cross-page header/footer detection                            *)
(***************************************************************************)
RECURSIVE NormalizedTexts(_)
\* clean.py:30-33  the non-empty normalized texts of the lines
NormalizedTexts(lines) ==
    IF lines = <<>> THEN <<>>
    ELSE LET text == normalize_line(Head(lines).text)
         IN (IF text = <<>> THEN <<>> ELSE <<text>>) \o NormalizedTexts(Tail(lines))

\* A detector that looks at the top of the page only.
PageCandidatesHeadersOnly(lines, header_max_lines, footer_max_lines) ==
    IF lines = <<>> THEN <<>>
    ELSE LET sorted_lines == SortByTop(lines)
         IN IF Len(sorted_lines) <= header_max_lines + footer_max_lines THEN <<>>
            ELSE NormalizedTexts(Slice(sorted_lines, 1, header_max_lines))

\* clean.py:23-34  the candidate texts one page adds to counts, one entry per
\* increment
PageCandidates(lines, header_max_lines, footer_max_lines) ==
    IF lines = <<>> THEN <<>>
    ELSE LET sorted_lines == SortByTop(lines)
             n == Len(sorted_lines)
         IN IF n <= header_max_lines + footer_max_lines THEN <<>>
            ELSE LET header_lines == Slice(sorted_lines, 1, header_max_lines)
                     footer_lines == IF footer_max_lines > 0
                                     THEN Slice(sorted_lines, n - footer_max_lines + 1, n)
                                     ELSE <<>>
                 IN NormalizedTexts(header_lines \o footer_lines)

RECURSIVE CountIncrements(_, _, _)
\* clean.py:21-34  every increment of counts, in order: counts[text] is the
\* number of times text occurs in this list
CountIncrements(pages_lines, header_max_lines, footer_max_lines) ==
    IF pages_lines = <<>> THEN <<>>
    ELSE PageCandidates(Head(pages_lines), header_max_lines, footer_max_lines)
         \o CountIncrements(Tail(pages_lines), header_max_lines, footer_max_lines)

\* counts.get(text, 0)
CountOf(increments, text) == Len(SelectSeq(increments, LAMBDA t : t = text))

\* A threshold that rounds total_pages * min_repetition_ratio + 0.5 to the
\* nearest integer, halves upwards.
ThresholdNearest(total_pages, ratio) ==
    Max2(2, (2 * total_pages * ratio[1] + 2 * ratio[2]) \div (2 * ratio[2]))

\* A threshold without the floor of 2.
ThresholdUnfloored(total_pages, ratio) ==
    (2 * total_pages * ratio[1] + ratio[2]) \div (2 * ratio[2])

\* clean.py:35  max(2, int(total_pages * min_repetition_ratio + 0.5)); int()
\* truncates, and the ratio is the rational <<n, d>>
Threshold(total_pages, ratio) ==
    Max2(2, (2 * total_pages * ratio[1] + ratio[2]) \div (2 * ratio[2]))

\* A detector without the guard on documents of fewer than two pages.
detect_without_page_guard(pages_lines, header_max_lines, footer_max_lines, min_repetition_ratio) ==
    LET total_pages == Len(pages_lines)
        counts == CountIncrements(pages_lines, header_max_lines, footer_max_lines)
        threshold == Threshold(total_pages, min_repetition_ratio)
    IN IF total_pages = 0 THEN {}
       ELSE {counts[i] : i \in {j \in 1..Len(counts) :
                                  CountOf(counts, counts[j]) >= threshold}}

\* clean.detect_header_footer_lines
detect_header_footer_lines(pages_lines, header_max_lines, footer_max_lines, min_repetition_ratio) ==
    LET total_pages == Len(pages_lines)
        counts == CountIncrements(pages_lines, header_max_lines, footer_max_lines)
        threshold == Threshold(total_pages, min_repetition_ratio)
    IN IF total_pages = 0 THEN {}
       ELSE IF total_pages < 2 THEN {}
       ELSE {counts[i] : i \in {j \in 1..Len(counts) :
                                  CountOf(counts, counts[j]) >= threshold}}

(***************************************************************************)
(* segment.py: role classification                                         *)
(***************************************************************************)
\* segment.py:37  len(norm) <= 80
TitleMaxLen == 80

\* segment.py:42  len(norm) <= 120
WideTitleMaxLen == 120

\* the symbol class of segment._math_score (non-ASCII symbols by name)
MathSymbol == {"=", "<", ">", "PLUS_MINUS", "TIMES", "DIVIDE", "N_ARY_SUM",
               "INTEGRAL", "SQRT", "INFINITY", "ALMOST_EQUAL", "NOT_EQUAL",
               "LESS_EQUAL", "GREATER_EQUAL", "PI", "THETA", "LAMBDA_", "MU",
               "OMEGA", "ALPHA", "BETA", "GAMMA", "DELTA", "CAPITAL_DELTA",
               "CAPITAL_SIGMA", "N_ARY_PRODUCT", "PARTIAL"}

\* \w
WordChar == AlnumChar \cup {"_"}

\* (sin|cos|tan|log|ln|exp)
MathFunctionNames == {<<"s","i","n">>, <<"c","o","s">>, <<"t","a","n">>,
                      <<"l","o","g">>, <<"l","n">>, <<"e","x","p">>}

\* re.search(r"\b(sin|cos|tan|log|ln|exp)\b", text)
HasMathFunction(text) ==
    \E w \in MathFunctionNames : \E i \in 1..(Len(text) - Len(w) + 1) :
        /\ SubSeq(text, i, i + Len(w) - 1) = w
        /\ (i = 1 \/ text[i - 1] \notin WordChar)
        /\ (i + Len(w) > Len(text) \/ text[i + Len(w)] \notin WordChar)

\* segment._math_score
math_score(text) ==
    (IF \E i \in 1..(Len(text) - 1) : text[i] \in {"_", "^"} /\ text[i + 1] = "{"
     THEN 2 ELSE 0)
    + (IF \E i \in 1..Len(text) : text[i] \in MathSymbol THEN 2 ELSE 0)
    + (IF HasMathFunction(text) THEN 1 ELSE 0)
    + (IF \E i \in 1..(Len(text) - 2) :
            text[i] \in Digit /\ text[i + 1] = "/" /\ text[i + 2] \in Digit
       THEN 1 ELSE 0)

\* text starts with \d+\s+\d+\s+\d+
StartsWithThreeNumbers(text) ==
    LET a == SkipDigits(text)
        b == LStrip(a)
        c == SkipDigits(b)
        d == LStrip(c)
    IN /\ StartsWithDigit(text)
       /\ a # <<>> /\ Head(a) \in Whitespace
       /\ StartsWithDigit(b)
       /\ c # <<>> /\ Head(c) \in Whitespace
       /\ StartsWithDigit(d)

\* segment._is_table_like
is_table_like(text) ==
    \/ Contains(text, <<SP, SP>>)
    \/ \E i \in 1..Len(text) : StartsWithThreeNumbers(SubSeq(text, i, Len(text)))
    \/ Len(SelectSeq(text, LAMBDA c : c = "|")) >= 2

\* bool(x) of an optional number: None and 0 are falsy
Truthy(x) == x # None /\ x[1] # 0

\* A classifier that tries the math rule before the repeated-line rule.
classify_role_math_first(text, avg_size, page_median_size, page_width, bbox, repeated_headers_footers, math_hint) ==
    LET norm == normalize_line(text)
        score == math_score(norm)
    IN IF norm = <<>> THEN "unknown"
       ELSE IF math_hint \/ score >= 2
            THEN (IF score >= 4 THEN "math_complex" ELSE "math")
       ELSE IF norm \in repeated_headers_footers THEN "header"
       ELSE IF is_list_item(norm) THEN "list_item"
       ELSE IF is_table_like(norm) THEN "table_like"
       ELSE IF /\ Truthy(avg_size) /\ Truthy(page_median_size)
               /\ RatLess(RatMul(page_median_size, <<13, 10>>), avg_size)
               /\ Len(norm) <= TitleMaxLen
            THEN "title"
       ELSE IF /\ bbox # <<>> /\ page_width > 0
               /\ IsFullWidth(bbox, page_width)
               /\ Len(norm) <= WideTitleMaxLen
            THEN "title"
       ELSE "paragraph"

\* segment.classify_role
classify_role(text, avg_size, page_median_size, page_width, bbox, repeated_headers_footers, math_hint) ==
    LET norm == normalize_line(text)
        score == math_score(norm)
    IN IF norm = <<>> THEN "unknown"
       ELSE IF norm \in repeated_headers_footers THEN "header"
       ELSE IF math_hint \/ score >= 2
            THEN (IF score >= 4 THEN "math_complex" ELSE "math")
       ELSE IF is_list_item(norm) THEN "list_item"
       ELSE IF is_table_like(norm) THEN "table_like"
       ELSE IF /\ Truthy(avg_size) /\ Truthy(page_median_size)
               /\ RatLess(RatMul(page_median_size, <<13, 10>>), avg_size)
               /\ Len(norm) <= TitleMaxLen
            THEN "title"
       ELSE IF /\ bbox # <<>> /\ page_width > 0
               /\ IsFullWidth(bbox, page_width)
               /\ Len(norm) <= WideTitleMaxLen
            THEN "title"
       ELSE "paragraph"

(***************************************************************************)
(* extract.py: what the extraction yields for a page dict.  A page dict is *)
(* [width, blocks], a block [type, bbox, lines] with type 0 (text) or 1    *)
(* (image), a line [text, bbox, size, has_script]: the text and script     *)
(* flag that _reconstruct_line returns for it, and the size of its span.   *)
(***************************************************************************)
RECURSIVE LineTexts(_)
\* the non-empty line texts of a block's lines
LineTexts(lines) ==
    IF lines = <<>> THEN <<>>
    ELSE (IF Head(lines).text # <<>> THEN <<Head(lines).text>> ELSE <<>>)
         \o LineTexts(Tail(lines))

RECURSIVE SizeSum(_)
SizeSum(lines) == IF lines = <<>> THEN 0 ELSE Head(lines).size + SizeSum(Tail(lines))

RECURSIVE extract_blocks(_)
\* extract.extract_blocks: the text blocks with non-empty text
extract_blocks(page_blocks) ==
    IF page_blocks = <<>> THEN <<>>
    ELSE LET block == Head(page_blocks)
             text == Strip(Join(LineTexts(block.lines), <<NL>>))
             math_hint == \/ \E i \in 1..Len(block.lines) : block.lines[i].has_script
                          \/ \E i \in 1..Len(text) : text[i] \in MathSymbol
         IN (IF block.type = 0 /\ text # <<>>
             THEN <<[bbox |-> block.bbox, text |-> text,
                     avg_size |-> IF block.lines # <<>>
                                  THEN Rat(SizeSum(block.lines), Len(block.lines))
                                  ELSE None,
                     type |-> "text", math_hint |-> math_hint]>>
             ELSE <<>>)
            \o extract_blocks(Tail(page_blocks))

\* extract.py:86  stats
BlockStats(page_blocks) ==
    [text_blocks |-> Len(SelectSeq(page_blocks, LAMBDA b : b.type = 0)),
     image_blocks |-> Len(SelectSeq(page_blocks, LAMBDA b : b.type = 1))]

RECURSIVE BlockLines(_, _)
\* extract.py:95-100  the lines of one text block
BlockLines(lines, block_bbox) ==
    IF lines = <<>> THEN <<>>
    ELSE (IF Head(lines).text # <<>>
          THEN <<[text |-> normalize_line(Head(lines).text),
                  bbox |-> IF Head(lines).bbox # <<>> THEN Head(lines).bbox
                           ELSE block_bbox]>>
          ELSE <<>>)
         \o BlockLines(Tail(lines), block_bbox)

RECURSIVE extract_lines(_)
\* extract.extract_lines
extract_lines(page_blocks) ==
    IF page_blocks = <<>> THEN <<>>
    ELSE (IF Head(page_blocks).type = 0
          THEN BlockLines(Head(page_blocks).lines, Head(page_blocks).bbox)
          ELSE <<>>)
         \o extract_lines(Tail(page_blocks))

RECURSIVE PageLineTexts(_)
PageLineTexts(page_blocks) ==
    IF page_blocks = <<>> THEN <<>>
    ELSE (IF Head(page_blocks).type = 0 THEN LineTexts(Head(page_blocks).lines)
          ELSE <<>>)
         \o PageLineTexts(Tail(page_blocks))

\* extract.extract_page_text
extract_page_text(page_blocks) == Join(PageLineTexts(page_blocks), <<NL>>)

(***************************************************************************)
(* utils.segment_id: f"{doc_id}-p{page:03d}-s{index:03d}"                  *)
(***************************************************************************)
DigitChar(d) == <<"0","1","2","3","4","5","6","7","8","9">>[d + 1]

RECURSIVE Decimal(_)
\* str(n) for n >= 0
Decimal(n) ==
    IF n < 10 THEN <<DigitChar(n)>> ELSE Decimal(n \div 10) \o <<DigitChar(n % 10)>>

\* f"{n:03d}": zero-padded to at least three digits
Format03d(n) ==
    LET d == Decimal(n)
    IN IF Len(d) = 1 THEN <<"0", "0">> \o d
       ELSE IF Len(d) = 2 THEN <<"0">> \o d
       ELSE d

\* utils.segment_id
segment_id(doc_id, page, index) ==
    doc_id \o <<"-", "p">> \o Format03d(page) \o <<"-", "s">> \o Format03d(index)

(***************************************************************************)
(* core.py: Scribe.process_pdf, the local pipeline from core.py:100 on.    *)
(* An optional integer is None or <<n>>.                                   *)
(***************************************************************************)
\* core.py:112  len(remove_whitespace(page_text)) < 15
ScannedMinChars == 15

\* core.py:103  max_ocr_pages
ResolvedMaxOcrPages(o) ==
    IF o.max_ocr_pages # None THEN o.max_ocr_pages ELSE o.max_pages_ocr

\* the values of ScribeOptions.mode that process_pdf knows
KnownModes == {"local", "simpletex_markdown", "auto"}

\* core.py:64-98  mode resolution, the OCR switch and the opening of the
\* document.  A string option that is None or empty is "".
ResolveMode ==
    /\ pc = "resolve"
    /\ LET requested == IF opts.mode = "" THEN "local" ELSE opts.mode
           unknown == requested \notin KnownModes
           mode1 == IF unknown THEN "local" ELSE requested
           warn1 == IF unknown THEN <<<<"Unknown mode, falling back to local">>>> ELSE <<>>
           no_deps == ~env.simpletex_available
           no_token == opts.simpletex_token = ""
           mode2 == IF mode1 = "auto" /\ (no_deps \/ no_token) THEN "local" ELSE mode1
           warn2 == IF mode1 = "auto" /\ no_deps
                    THEN <<<<"SimpleTex dependencies missing; falling back to local">>>>
                    ELSE IF mode1 = "auto" /\ no_token
                    THEN <<<<"SimpleTex token missing; falling back to local">>>>
                    ELSE <<>>
           ocr_on == opts.enable_ocr /\ env.ocr_available
           warn3 == IF opts.enable_ocr /\ ~env.ocr_available
                    THEN <<<<"PaddleOCR not available; OCR disabled">>>>
                    ELSE <<>>
           switches == mode2 = "auto" /\ ~ocr_on
           mode3 == IF switches THEN "simpletex_markdown" ELSE mode2
           warn4 == IF switches
                    THEN <<<<"Auto mode switched to SimpleTex because OCR is disabled">>>>
                    ELSE <<>>
       IN IF mode1 = "simpletex_markdown" /\ no_deps
          THEN \* core.py:69-70
               /\ error' = <<"RuntimeError", "SimpleTex dependencies missing">>
               /\ pc' = "raised"
               /\ mode' = mode1
               /\ warnings' = warnings \o warn1
               /\ UNCHANGED ocr_enabled
          ELSE IF mode1 = "simpletex_markdown" /\ no_token
          THEN \* core.py:72-73
               /\ error' = <<"RuntimeError", "SimpleTex token missing">>
               /\ pc' = "raised"
               /\ mode' = mode1
               /\ warnings' = warnings \o warn1
               /\ UNCHANGED ocr_enabled
          ELSE \E open_ok \in BOOLEAN :
                 IF ~open_ok
                 THEN \* core.py:88-91
                      /\ error' = <<"RuntimeError", "Failed to open PDF">>
                      /\ pc' = "raised"
                      /\ mode' = mode2
                      /\ warnings' = warnings \o warn1 \o warn2 \o warn3
                      /\ ocr_enabled' = ocr_on
                 ELSE /\ error' = None
                      /\ mode' = mode3
                      /\ warnings' = warnings \o warn1 \o warn2 \o warn3 \o warn4
                      /\ ocr_enabled' = ocr_on
                      /\ pc' = IF mode3 = "simpletex_markdown" THEN "simpletex"
                               ELSE IF doc = <<>> THEN "detect"
                               ELSE "scan"
    /\ UNCHANGED <<doc, opts, pages_data, repeated_lines, page_i, blocks, block_i,
                   median_size, segment_index, page_paragraphs, segments, pages_records,
                   ocr_images, ocr_indices, ocr_pages_used, env, remote, fn, args, ret>>

\* ocr.render_page_array(page): the image of the page, named by the page
RenderedPage(page_index) == <<"image", page_index + 1>>

\* A page scan that queues pages without counting them against the limit.
ScanPageUncounted ==
    /\ pc = "scan"
    /\ Len(pages_data) < Len(doc)
    /\ LET page_index == Len(pages_data)
           page_dict == doc[page_index + 1]
           page_text == extract_page_text(page_dict.blocks)
           stats == BlockStats(page_dict.blocks)
           scanned == \/ Len(remove_whitespace(page_text)) < ScannedMinChars
                      \/ (stats.text_blocks <= 1 /\ stats.image_blocks > 0)
           max_ocr_pages == ResolvedMaxOcrPages(opts)
           within == max_ocr_pages = None \/ ocr_pages_used < max_ocr_pages[1]
           tries == scanned /\ ocr_enabled /\ within
       IN \E render_ok \in (IF tries THEN BOOLEAN ELSE {TRUE}) :
            LET source_mode == IF ~scanned THEN "extract:text"
                               ELSE IF tries /\ render_ok THEN "ocr:pending"
                               ELSE "extract:failed_ocr"
                warning == IF ~scanned \/ (tries /\ render_ok) THEN <<>>
                           ELSE IF tries THEN <<<<"OCR render failed", page_index + 1>>>>
                           ELSE IF ocr_enabled
                                THEN <<<<"OCR skipped after max_ocr_pages", page_index + 1>>>>
                           ELSE <<<<"OCR disabled; scanned page", page_index + 1>>>>
            IN /\ pages_data' = Append(pages_data,
                     [page |-> page_index + 1,
                      page_width |-> page_dict.width,
                      text |-> page_text,
                      blocks |-> extract_blocks(page_dict.blocks),
                      lines |-> extract_lines(page_dict.blocks),
                      source_mode |-> source_mode,
                      confidence |-> None])
               /\ warnings' = warnings \o warning
               /\ ocr_images' = IF tries /\ render_ok
                                THEN Append(ocr_images, RenderedPage(page_index))
                                ELSE ocr_images
               /\ ocr_indices' = IF tries /\ render_ok
                                 THEN Append(ocr_indices, page_index)
                                 ELSE ocr_indices
               /\ ocr_pages_used' = ocr_pages_used
               /\ pc' = IF page_index + 1 < Len(doc) THEN "scan"
                        ELSE IF ocr_indices' # <<>> THEN "ocr"
                        ELSE "detect"
    /\ UNCHANGED <<doc, opts, repeated_lines, page_i, blocks, block_i, median_size,
                   segment_index, page_paragraphs, segments, pages_records,
                   ocr_enabled, mode, env, error,
                   remote, fn, args, ret>>

\* core.py:105-149  one iteration of the page-scan loop
ScanPage ==
    /\ pc = "scan"
    /\ Len(pages_data) < Len(doc)
    /\ LET page_index == Len(pages_data)
           page_dict == doc[page_index + 1]
           page_text == extract_page_text(page_dict.blocks)
           stats == BlockStats(page_dict.blocks)
           scanned == \/ Len(remove_whitespace(page_text)) < ScannedMinChars
                      \/ (stats.text_blocks <= 1 /\ stats.image_blocks > 0)
           max_ocr_pages == ResolvedMaxOcrPages(opts)
           within == max_ocr_pages = None \/ ocr_pages_used < max_ocr_pages[1]
           tries == scanned /\ ocr_enabled /\ within
       IN \E render_ok \in (IF tries THEN BOOLEAN ELSE {TRUE}) :
            LET source_mode == IF ~scanned THEN "extract:text"
                               ELSE IF tries /\ render_ok THEN "ocr:pending"
                               ELSE "extract:failed_ocr"
                warning == IF ~scanned \/ (tries /\ render_ok) THEN <<>>
                           ELSE IF tries THEN <<<<"OCR render failed", page_index + 1>>>>
                           ELSE IF ocr_enabled
                                THEN <<<<"OCR skipped after max_ocr_pages", page_index + 1>>>>
                           ELSE <<<<"OCR disabled; scanned page", page_index + 1>>>>
            IN /\ pages_data' = Append(pages_data,
                     [page |-> page_index + 1,
                      page_width |-> page_dict.width,
                      text |-> page_text,
                      blocks |-> extract_blocks(page_dict.blocks),
                      lines |-> extract_lines(page_dict.blocks),
                      source_mode |-> source_mode,
                      confidence |-> None])
               /\ warnings' = warnings \o warning
               /\ ocr_images' = IF tries /\ render_ok
                                THEN Append(ocr_images, RenderedPage(page_index))
                                ELSE ocr_images
               /\ ocr_indices' = IF tries /\ render_ok
                                 THEN Append(ocr_indices, page_index)
                                 ELSE ocr_indices
               /\ ocr_pages_used' = IF tries /\ render_ok THEN ocr_pages_used + 1
                                    ELSE ocr_pages_used
               /\ pc' = IF page_index + 1 < Len(doc) THEN "scan"
                        ELSE IF ocr_indices' # <<>> THEN "ocr"
                        ELSE "detect"
    /\ UNCHANGED <<doc, opts, repeated_lines, page_i, blocks, block_i, median_size,
                   segment_index, page_paragraphs, segments, pages_records,
                   ocr_enabled, mode, env, error,
                   remote, fn, args, ret>>

\* ocr._ocr_image_array: the block of one recognized line; it has no
\* math_hint, which core.py:233 reads as False
OcrBlock(text) ==
    [text |-> text, bbox |-> None, avg_size |-> None, type |-> "ocr", math_hint |-> FALSE]

\* what ocr_images_parallel returns for one image: nothing recognized; one
\* line; or a line, a line with no text and a line that is a number
OcrResultKinds ==
    {[text |-> <<>>, confidence |-> None, blocks |-> <<>>],
     [text |-> <<"S","c","a","n",".">>, confidence |-> <<9, 10>>,
      blocks |-> <<OcrBlock(<<"S","c","a","n",".">>)>>],
     [text |-> <<"S","c","a","n",".",NL,"7">>, confidence |-> <<4, 5>>,
      blocks |-> <<OcrBlock(<<"S","c","a","n",".">>), OcrBlock(<<>>), OcrBlock(<<"7">>)>>]}

RECURSIVE OcrLines(_)
\* core.py:164-166  [{"text": line, "bbox": None} for line in lines if line]
OcrLines(lines) ==
    IF lines = <<>> THEN <<>>
    ELSE (IF Head(lines) # <<>> THEN <<[text |-> Head(lines), bbox |-> None]>> ELSE <<>>)
         \o OcrLines(Tail(lines))

\* the place of page_index in ocr_indices (each page is queued at most once)
QueuePlace(page_index) == CHOOSE n \in 1..Len(ocr_indices) : ocr_indices[n] = page_index

\* page_index is queued for OCR
IsQueued(page_index) == \E n \in 1..Len(ocr_indices) : ocr_indices[n] = page_index

\* core.py:161-168  pages_data with the OCR results merged in
WithOcrResults(results) ==
    LET merged(i) ==
          IF IsQueued(i - 1)
          THEN LET r == results[QueuePlace(i - 1)]
               IN [pages_data[i] EXCEPT !.text = r.text, !.blocks = r.blocks,
                                        !.lines = OcrLines(Split(r.text, NL)),
                                        !.source_mode = "ocr:paddle",
                                        !.confidence = r.confidence]
          ELSE pages_data[i]
    IN SubSeq([i \in 1..Len(pages_data) |-> merged(i)], 1, Len(pages_data))

\* core.py:171-172  pages_data with every queued page marked as failed
WithOcrFailed ==
    LET marked(i) == IF IsQueued(i - 1)
                     THEN [pages_data[i] EXCEPT !.source_mode = "extract:failed_ocr"]
                     ELSE pages_data[i]
    IN SubSeq([i \in 1..Len(pages_data) |-> marked(i)], 1, Len(pages_data))

\* An OCR batch whose failure leaves the queued pages as they are.
OcrBatchNoFallback ==
    /\ pc = "ocr"
    /\ \E failed \in BOOLEAN :
         IF failed
         THEN /\ warnings' = Append(warnings, <<"OCR parallel failed">>)
              /\ UNCHANGED pages_data
         ELSE /\ \E results \in [1..Len(ocr_indices) -> OcrResultKinds] :
                   pages_data' = WithOcrResults(results)
              /\ UNCHANGED warnings
    /\ pc' = "detect"
    /\ UNCHANGED <<doc, opts, repeated_lines, page_i, blocks, block_i, median_size,
                   segment_index, page_paragraphs, segments, pages_records, ocr_images, ocr_indices,
                   ocr_pages_used, ocr_enabled, mode, env, error, remote, fn, args, ret>>

\* core.py:151-172  the OCR batch over the queued pages: the call returns a
\* result for every image, or raises
OcrBatch ==
    /\ pc = "ocr"
    /\ \E failed \in BOOLEAN :
         IF failed
         THEN /\ warnings' = Append(warnings, <<"OCR parallel failed">>)
              /\ pages_data' = WithOcrFailed
         ELSE /\ \E results \in [1..Len(ocr_indices) -> OcrResultKinds] :
                   pages_data' = WithOcrResults(results)
              /\ UNCHANGED warnings
    /\ pc' = "detect"
    /\ UNCHANGED <<doc, opts, repeated_lines, page_i, blocks, block_i, median_size,
                   segment_index, page_paragraphs, segments, pages_records, ocr_images, ocr_indices,
                   ocr_pages_used, ocr_enabled, mode, env, error, remote, fn, args, ret>>

RECURSIVE PagesLines(_)
\* core.py:176-179  per page, the lines that carry a bounding box
PagesLines(pages) ==
    IF pages = <<>> THEN <<>>
    ELSE <<SelectSeq(Head(pages).lines, HasBBox)>> \o PagesLines(Tail(pages))

\* core.py:174-189  header/footer detection over all pages
Detect ==
    /\ pc = "detect"
    /\ repeated_lines' =
         IF opts.remove_headers_footers
         THEN detect_header_footer_lines(PagesLines(pages_data), opts.header_max_lines,
                                         opts.footer_max_lines, opts.min_repetition_ratio)
         ELSE {}
    /\ segments' = <<>>
    /\ pages_records' = <<>>
    /\ page_i' = 1
    /\ pc' = IF pages_data = <<>> THEN "done" ELSE "page"
    /\ UNCHANGED <<doc, opts, pages_data, warnings, blocks, block_i, median_size,
                   segment_index, page_paragraphs, ocr_images, ocr_indices, ocr_pages_used,
                   ocr_enabled, mode, env, error,
                   remote, fn, args, ret>>

RECURSIVE InsertRat(_, _)
InsertRat(x, sorted) ==
    IF sorted = <<>> THEN <<x>>
    ELSE IF RatLeq(Head(sorted), x) THEN <<Head(sorted)>> \o InsertRat(x, Tail(sorted))
    ELSE <<x>> \o sorted

RECURSIVE SortRats(_)
\* sorted(font_sizes)
SortRats(values) ==
    IF values = <<>> THEN <<>> ELSE InsertRat(Head(values), SortRats(Tail(values)))

RECURSIVE FontSizes(_)
\* core.py:197  [b.get("avg_size") for b in blocks if b.get("avg_size")]
FontSizes(blks) ==
    IF blks = <<>> THEN <<>>
    ELSE (IF Truthy(Head(blks).avg_size) THEN <<Head(blks).avg_size>> ELSE <<>>)
         \o FontSizes(Tail(blks))

\* core.py:197-202  median_size
MedianSize(blks) ==
    LET font_sizes_sorted == SortRats(FontSizes(blks))
    IN IF font_sizes_sorted = <<>> THEN None
       ELSE font_sizes_sorted[Len(font_sizes_sorted) \div 2 + 1]

\* A page loop that numbers the segments of the whole document in one run.
StartPageNoRestart ==
    /\ pc = "page"
    /\ LET page == pages_data[page_i]
           ordered == IF opts.multicolumn /\ \E i \in 1..Len(page.blocks) : HasBBox(page.blocks[i])
                      THEN order_blocks(page.blocks, page.page_width)
                      ELSE page.blocks
       IN /\ blocks' = ordered
          /\ median_size' = MedianSize(ordered)
    /\ page_paragraphs' = <<>>
    /\ segment_index' = IF page_i = 1 THEN 1 ELSE segment_index
    /\ block_i' = 1
    /\ pc' = "block"
    /\ UNCHANGED <<doc, opts, pages_data, warnings, repeated_lines, page_i, segments,
                   pages_records, ocr_images, ocr_indices, ocr_pages_used, ocr_enabled,
                   mode, env, error,
                   remote, fn, args, ret>>

\* core.py:192-204  the head of one iteration of the page loop
StartPage ==
    /\ pc = "page"
    /\ LET page == pages_data[page_i]
           ordered == IF opts.multicolumn /\ \E i \in 1..Len(page.blocks) : HasBBox(page.blocks[i])
                      THEN order_blocks(page.blocks, page.page_width)
                      ELSE page.blocks
       IN /\ blocks' = ordered
          /\ median_size' = MedianSize(ordered)
    /\ page_paragraphs' = <<>>
    /\ segment_index' = 1
    /\ block_i' = 1
    /\ pc' = "block"
    /\ UNCHANGED <<doc, opts, pages_data, warnings, repeated_lines, page_i, segments,
                   pages_records, ocr_images, ocr_indices, ocr_pages_used, ocr_enabled,
                   mode, env, error,
                   remote, fn, args, ret>>

RECURSIVE CleanParagraphs(_, _)
\* core.py:221-225  the paragraphs that are emitted: normalized when
\* normalize_whitespace is set, and skipped when empty
CleanParagraphs(paragraphs, o) ==
    IF paragraphs = <<>> THEN <<>>
    ELSE LET paragraph == IF o.normalize_whitespace
                          THEN normalize_whitespace(Head(paragraphs))
                          ELSE Head(paragraphs)
         IN (IF paragraph = <<>> THEN <<>> ELSE <<paragraph>>)
            \o CleanParagraphs(Tail(paragraphs), o)

\* A page-number step that removes only the lines made of digits.
DigitLinesRemoved(lines) ==
    SelectSeq(lines, LAMBDA line :
        ~(/\ normalize_line(line) # <<>>
          /\ Len(normalize_line(line)) <= 4
          /\ \A i \in 1..Len(normalize_line(line)) : normalize_line(line)[i] \in Digit))

\* core.py:213-214  the page-number step: the lines that are not page numbers
page_number_step(lines) ==
    SelectSeq(lines, LAMBDA line : ~is_page_number(normalize_line(line)))

\* A block loop without the checks for blank text and empty paragraphs.
BlockParagraphsKeepingBlank(block_text, o, repeated) ==
    IF block_text = <<>> THEN <<>>
    ELSE
    LET lines == Split(block_text, NL)
        kept == IF o.remove_headers_footers /\ repeated # {}
                THEN SelectSeq(lines, LAMBDA line : normalize_line(line) \notin repeated)
                ELSE lines
        unnumbered == IF o.remove_page_numbers THEN page_number_step(kept) ELSE kept
        text == Join(unnumbered, <<NL>>)
        joined == IF o.dehyphenate THEN dehyphenate_text(text) ELSE text
        paragraphs == IF o.merge_paragraphs
                      THEN split_block_to_paragraphs(joined)
                      ELSE <<joined>>
    IN IF o.normalize_whitespace
       THEN [k \in 1..Len(paragraphs) |-> normalize_whitespace(paragraphs[k])]
       ELSE paragraphs

\* A block loop that leaves the repeated lines in the block's text.
BlockParagraphsKeepingRepeated(block_text, o, repeated) ==
    IF block_text = <<>> THEN <<>>
    ELSE
    LET lines == Split(block_text, NL)
        unnumbered == IF o.remove_page_numbers THEN page_number_step(lines) ELSE lines
        text == Join(unnumbered, <<NL>>)
    IN IF Strip(text) = <<>> THEN <<>>
       ELSE LET joined == IF o.dehyphenate THEN dehyphenate_text(text) ELSE text
                paragraphs == IF o.merge_paragraphs
                              THEN split_block_to_paragraphs(joined)
                              ELSE <<joined>>
            IN CleanParagraphs(paragraphs, o)

\* core.py:206-225  the paragraphs one block's text yields
BlockParagraphs(block_text, o, repeated) ==
    IF block_text = <<>> THEN <<>>
    ELSE
    LET lines == Split(block_text, NL)
        kept == IF o.remove_headers_footers /\ repeated # {}
                THEN SelectSeq(lines, LAMBDA line : normalize_line(line) \notin repeated)
                ELSE lines
        unnumbered == IF o.remove_page_numbers THEN page_number_step(kept) ELSE kept
        text == Join(unnumbered, <<NL>>)
    IN IF Strip(text) = <<>> THEN <<>>
       ELSE LET joined == IF o.dehyphenate THEN dehyphenate_text(text) ELSE text
                paragraphs == IF o.merge_paragraphs
                              THEN split_block_to_paragraphs(joined)
                              ELSE <<joined>>
            IN CleanParagraphs(paragraphs, o)

RECURSIVE BlockSegments(_, _, _, _, _, _, _)
\* core.py:226-250  the segment records of one block's paragraphs, numbered
\* from index
BlockSegments(paragraphs, block, page, index, median, repeated, doc_id) ==
    IF paragraphs = <<>> THEN <<>>
    ELSE <<[doc_id |-> doc_id,
            page |-> page.page,
            segment_id |-> segment_id(doc_id, page.page, index),
            role |-> classify_role(Head(paragraphs), block.avg_size, median,
                                   page.page_width, block.bbox, repeated,
                                   block.math_hint),
            bbox |-> block.bbox,
            text |-> Head(paragraphs),
            source_mode |-> page.source_mode,
            confidence |-> page.confidence]>>
         \o BlockSegments(Tail(paragraphs), block, page, index + 1, median, repeated,
                          doc_id)

\* core.py:205-250  one iteration of the block loop
ProcessBlock ==
    /\ pc = "block"
    /\ block_i <= Len(blocks)
    /\ LET block == blocks[block_i]
           paragraphs == BlockParagraphs(block.text, opts, repeated_lines)
       IN /\ segments' = segments \o BlockSegments(paragraphs, block, pages_data[page_i],
                                                   segment_index, median_size,
                                                   repeated_lines, opts.doc_id)
          /\ page_paragraphs' = page_paragraphs \o paragraphs
          /\ segment_index' = segment_index + Len(paragraphs)
    /\ block_i' = block_i + 1
    /\ UNCHANGED <<pc, doc, opts, pages_data, warnings, repeated_lines, page_i, blocks,
                   median_size, pages_records, ocr_images, ocr_indices, ocr_pages_used,
                   ocr_enabled, mode, env, error,
                   remote, fn, args, ret>>

\* A page loop that detects the repeated lines again after each page, from
\* the pages it has finished.
FinishPageRedetecting ==
    /\ pc = "block"
    /\ block_i > Len(blocks)
    /\ pages_records' = Append(pages_records,
         [doc_id |-> opts.doc_id,
          page |-> pages_data[page_i].page,
          text |-> Strip(Join(page_paragraphs, <<NL, NL>>)),
          source_mode |-> pages_data[page_i].source_mode])
    /\ repeated_lines' =
         IF opts.remove_headers_footers
         THEN detect_header_footer_lines(PagesLines(SubSeq(pages_data, 1, page_i)),
                                         opts.header_max_lines, opts.footer_max_lines,
                                         opts.min_repetition_ratio)
         ELSE {}
    /\ page_i' = page_i + 1
    /\ pc' = IF page_i < Len(pages_data) THEN "page" ELSE "done"
    /\ UNCHANGED <<doc, opts, pages_data, warnings, blocks, block_i,
                   median_size, segment_index, page_paragraphs, segments,
                   ocr_images, ocr_indices, ocr_pages_used, ocr_enabled, mode, env, error,
                   remote, fn, args, ret>>

\* core.py:251-260  the tail of one iteration of the page loop
FinishPage ==
    /\ pc = "block"
    /\ block_i > Len(blocks)
    /\ pages_records' = Append(pages_records,
         [doc_id |-> opts.doc_id,
          page |-> pages_data[page_i].page,
          text |-> Strip(Join(page_paragraphs, <<NL, NL>>)),
          source_mode |-> pages_data[page_i].source_mode])
    /\ page_i' = page_i + 1
    /\ pc' = IF page_i < Len(pages_data) THEN "page" ELSE "done"
    /\ UNCHANGED <<doc, opts, pages_data, warnings, repeated_lines, blocks, block_i,
                   median_size, segment_index, page_paragraphs, segments,
                   ocr_images, ocr_indices, ocr_pages_used, ocr_enabled, mode, env, error,
                   remote, fn, args, ret>>

(***************************************************************************)
(* The documents and options process_pdf is run on.                        *)
(***************************************************************************)
\* the most pages of a document
MaxPages == 2

HeaderText == <<"H","e","a","d","e","r">>
FooterText == <<"F","o","o","t","e","r">>

\* "Body <i>."
BodyText(i) == <<"B","o","d","y",SP>> \o Decimal(i) \o <<".">>

\* a line of text set at height y, as the span of a page dict
TextLine(text, y, size) ==
    [text |-> text, bbox |-> <<72, y, 72 + 6 * Len(text), y + size>>,
     size |-> size, has_script |-> FALSE]

\* a text block of the given lines: its box spans them
TextBlock(lines) ==
    [type |-> 0,
     bbox |-> <<72, lines[1].bbox[2], 72 + 6 * 7, lines[Len(lines)].bbox[4]>>,
     lines |-> lines]

ImageBlock == [type |-> 1, bbox |-> <<72, 40, 500, 700>>, lines |-> <<>>]

PageKinds == {"plain", "mixed", "image", "furniture", "numbered"}

\* The page dict of page i (1-based) of each kind:
\*   plain      a header, a body line and a footer, each a block of its own
\*   mixed      a large header; a body block with a hyphen-broken word; a
\*              block that is only a page number; two list items; a footer
\*   image      one image and no text
\*   numbered   a block that is only a page number, and a blank block
\*   furniture  a header and a footer only
PageDict(kind, i) ==
    [width |-> 595,   \* an A4 page, in points
     blocks |->
       CASE kind = "plain" ->
              <<TextBlock(<<TextLine(HeaderText, 40, 11)>>),
                TextBlock(<<TextLine(BodyText(i), 100, 11)>>),
                TextBlock(<<TextLine(FooterText, 760, 11)>>)>>
         [] kind = "mixed" ->
              <<TextBlock(<<TextLine(HeaderText, 40, 18)>>),
                TextBlock(<<TextLine(BodyText(i), 100, 11),
                            TextLine(<<"h","y","-">>, 115, 11),
                            TextLine(<<"p","h","e","n">>, 130, 11)>>),
                TextBlock(<<TextLine(<<"7">>, 300, 11)>>),
                TextBlock(<<TextLine(<<"-",SP,"a">>, 400, 11),
                            TextLine(<<"-",SP,"b">>, 415, 11)>>),
                TextBlock(<<TextLine(FooterText, 760, 11)>>)>>
         [] kind = "image" -> <<ImageBlock>>
         [] kind = "numbered" ->
              <<TextBlock(<<TextLine(<<"7">>, 300, 11)>>),
                TextBlock(<<TextLine(<<SP>>, 400, 11)>>)>>
         [] OTHER ->
              <<TextBlock(<<TextLine(HeaderText, 40, 11)>>),
                TextBlock(<<TextLine(FooterText, 760, 11)>>)>>]

\* the documents: every sequence of 1..MaxPages pages of these kinds
Documents ==
    UNION {{[i \in 1..n |-> PageDict(kinds[i], i)] : kinds \in [1..n -> PageKinds]}
           : n \in 1..MaxPages}

\* the option combinations: every cleaning switch either way, the
\* header/footer window 1 or the default 3; OCR off
OptionSets ==
    {[doc_id |-> <<"i","d","s">>,
      enable_ocr |-> FALSE, max_ocr_pages |-> None, max_pages_ocr |-> None,
      multicolumn |-> mc, remove_headers_footers |-> rhf,
      header_max_lines |-> w, footer_max_lines |-> w,
      min_repetition_ratio |-> <<3, 5>>,
      remove_page_numbers |-> rpn, dehyphenate |-> dh,
      normalize_whitespace |-> nw, merge_paragraphs |-> mp]
     : mc \in BOOLEAN, rhf \in BOOLEAN, rpn \in BOOLEAN, dh \in BOOLEAN,
       nw \in BOOLEAN, mp \in BOOLEAN, w \in {1, 3}}

\* neither the SimpleTex dependencies nor PaddleOCR can be imported
NothingInstalled == [simpletex_available |-> FALSE, ocr_available |-> FALSE]

\* pdf_to_markdown is not running
RemoteIdle == <<>>

\* no pure function is under call
CallIdle == fn = "none" /\ args = <<>> /\ ret = [returned |-> FALSE, value |-> <<>>]

\* process_pdf at core.py:100: options resolved, mode local, the document open
InitPdf ==
    /\ doc \in Documents
    /\ opts \in OptionSets
    /\ ocr_enabled = opts.enable_ocr
    /\ mode = "local" /\ env = NothingInstalled /\ error = None
    /\ remote = RemoteIdle
    /\ pc = "scan"
    /\ pages_data = <<>>
    /\ warnings = <<>>
    /\ ocr_images = <<>> /\ ocr_indices = <<>>
    /\ ocr_pages_used = 0
    /\ repeated_lines = {}
    /\ page_i = 0
    /\ blocks = <<>>
    /\ block_i = 0
    /\ median_size = None
    /\ segment_index = 0
    /\ page_paragraphs = <<>>
    /\ segments = <<>>
    /\ pages_records = <<>>
    /\ CallIdle

NextPdf == ScanPage \/ Detect \/ StartPage \/ ProcessBlock \/ FinishPage

SpecPdf == InitPdf /\ [][NextPdf]_vars

(***************************************************************************)
(* The whole of process_pdf: mode resolution, the page scan with OCR, the  *)
(* OCR batch, detection and the page loop.                                 *)
(***************************************************************************)
\* the most pages of a document of a whole run
MaxRunPages == 3

\* the documents: text pages and scanned pages (one image, no text)
RunDocuments ==
    UNION {{[i \in 1..n |-> PageDict(kinds[i], i)] : kinds \in [1..n -> {"plain", "image"}]}
           : n \in 1..MaxRunPages}

\* the options: every requested mode, one of them unknown; a token or none;
\* OCR asked for or not, for every page or for one; header/footer removal
\* either way; the other switches at their defaults
RunOptions ==
    {[doc_id |-> <<"i","d","s">>,
      mode |-> requested, simpletex_token |-> token,
      enable_ocr |-> ocr, max_ocr_pages |-> limit, max_pages_ocr |-> None,
      multicolumn |-> TRUE, remove_headers_footers |-> rhf,
      header_max_lines |-> 1, footer_max_lines |-> 1,
      min_repetition_ratio |-> <<3, 5>>,
      remove_page_numbers |-> TRUE, dehyphenate |-> TRUE,
      normalize_whitespace |-> TRUE, merge_paragraphs |-> TRUE]
     : requested \in {"", "local", "simpletex_markdown", "auto", "fast"},
       token \in {"", "token"}, ocr \in BOOLEAN, limit \in {None, <<1>>},
       rhf \in BOOLEAN}

\* what can be installed
Environments ==
    [simpletex_available : BOOLEAN, ocr_available : BOOLEAN]

\* process_pdf at core.py:61, the input file found
InitRun ==
    /\ doc \in RunDocuments
    /\ opts \in RunOptions
    /\ env \in Environments
    /\ pc = "resolve"
    /\ mode = "" /\ error = None /\ ocr_enabled = FALSE
    /\ remote = RemoteIdle
    /\ pages_data = <<>>
    /\ warnings = <<>>
    /\ ocr_images = <<>> /\ ocr_indices = <<>>
    /\ ocr_pages_used = 0
    /\ repeated_lines = {}
    /\ page_i = 0
    /\ blocks = <<>>
    /\ block_i = 0
    /\ median_size = None
    /\ segment_index = 0
    /\ page_paragraphs = <<>>
    /\ segments = <<>>
    /\ pages_records = <<>>
    /\ CallIdle

NextRun ==
    \/ ResolveMode \/ ScanPage \/ OcrBatch \/ Detect
    \/ StartPage \/ ProcessBlock \/ FinishPage

SpecRun == InitRun /\ [][NextRun]_vars

(***************************************************************************)
(* The page loop on pages whose blocks are set in different font sizes.    *)
(***************************************************************************)
\* the most blocks of a page
MaxSizedBlocks == 3

\* the font sizes of a block's spans, in points; the average of a block set
\* at size 0 is falsy, so that the block reports no size (core.py:197)
SpanSizes == {0, 10, 20}

\* a page of one-line blocks one below the other, set at the given sizes
SizedPage(sizes) ==
    [width |-> 595,
     blocks |-> [j \in 1..Len(sizes) |->
                    TextBlock(<<TextLine(BodyText(j), 100 * j, sizes[j])>>)]]

\* the pages: every sequence of up to MaxSizedBlocks sizes
SizedPages ==
    UNION {{SizedPage(sizes) : sizes \in [1..n -> SpanSizes]} : n \in 0..MaxSizedBlocks}

\* the documents: one such page, alone or followed by a page of at most one
\* block
SizedDocuments ==
    {<<page>> : page \in SizedPages}
    \cup {<<page, last>> : page \in SizedPages,
                           last \in {q \in SizedPages : Len(q.blocks) <= 1}}

\* process_pdf at core.py:100 on these documents, with the cleaning
\* switches at their defaults and reading order either way
InitSized ==
    /\ doc \in SizedDocuments
    /\ opts \in {o \in OptionSets :
                    /\ o.remove_headers_footers /\ o.remove_page_numbers
                    /\ o.dehyphenate /\ o.normalize_whitespace
                    /\ o.merge_paragraphs /\ o.header_max_lines = 3}
    /\ ocr_enabled = opts.enable_ocr
    /\ mode = "local" /\ env = NothingInstalled /\ error = None
    /\ remote = RemoteIdle
    /\ pc = "scan"
    /\ pages_data = <<>>
    /\ warnings = <<>>
    /\ ocr_images = <<>> /\ ocr_indices = <<>>
    /\ ocr_pages_used = 0
    /\ repeated_lines = {}
    /\ page_i = 0
    /\ blocks = <<>>
    /\ block_i = 0
    /\ median_size = None
    /\ segment_index = 0
    /\ page_paragraphs = <<>>
    /\ segments = <<>>
    /\ pages_records = <<>>
    /\ CallIdle

SpecSized == InitSized /\ [][NextPdf]_vars

(***************************************************************************)
(* The page loop on pages framed by a running header and footer, whose     *)
(* body lines can join into the header's or the footer's string.           *)
(***************************************************************************)
\* the most pages of a framed document
MaxFramedPages == 2

\* the running header "a b" and the running footer "ab"
FrameHeader == <<"a", SP, "b">>
FrameFooter == <<"a", "b">>

FramedKinds == {"plain", "split", "hyphen"}

\* The page dict of page i of each kind, between the header and the footer:
\*   plain   one body line
\*   split   a block of the two lines "a" and "b"
\*   hyphen  a block of the two lines "a-" and "b"
FramedPage(kind, i) ==
    [width |-> 595,
     blocks |->
       <<TextBlock(<<TextLine(FrameHeader, 40, 11)>>),
         CASE kind = "plain" -> TextBlock(<<TextLine(BodyText(i), 100, 11)>>)
           [] kind = "split" -> TextBlock(<<TextLine(<<"a">>, 100, 11),
                                            TextLine(<<"b">>, 115, 11)>>)
           [] OTHER -> TextBlock(<<TextLine(<<"a", "-">>, 100, 11),
                                   TextLine(<<"b">>, 115, 11)>>),
         TextBlock(<<TextLine(FrameFooter, 760, 11)>>)>>]

FramedDocuments ==
    UNION {{[i \in 1..n |-> FramedPage(kinds[i], i)] : kinds \in [1..n -> FramedKinds]}
           : n \in 1..MaxFramedPages}

\* process_pdf at core.py:100 on these documents, with a window of one line
\* at the top and at the bottom, and header/footer removal, dehyphenation,
\* whitespace normalization and paragraph merging either way
InitFramed ==
    /\ doc \in FramedDocuments
    /\ opts \in {o \in OptionSets :
                    /\ o.multicolumn /\ o.remove_page_numbers
                    /\ o.header_max_lines = 1}
    /\ ocr_enabled = opts.enable_ocr
    /\ mode = "local" /\ env = NothingInstalled /\ error = None
    /\ remote = RemoteIdle
    /\ pc = "scan"
    /\ pages_data = <<>>
    /\ warnings = <<>>
    /\ ocr_images = <<>> /\ ocr_indices = <<>>
    /\ ocr_pages_used = 0
    /\ repeated_lines = {}
    /\ page_i = 0
    /\ blocks = <<>>
    /\ block_i = 0
    /\ median_size = None
    /\ segment_index = 0
    /\ page_paragraphs = <<>>
    /\ segments = <<>>
    /\ pages_records = <<>>
    /\ CallIdle

SpecFramed == InitFramed /\ [][NextPdf]_vars

(***************************************************************************)
(* The page scan on documents with scanned pages of every sort, with and   *)
(* without a limit on the pages given to OCR.                              *)
(***************************************************************************)
\* the most pages of a scanned document
MaxScanPages == 2

\* "Caption of figure <i>."
CaptionText(i) ==
    <<"C","a","p","t","i","o","n",SP,"o","f",SP,"f","i","g","u","r","e",SP>>
    \o Decimal(i) \o <<".">>

ScanKinds == {"plain", "image", "caption", "furniture"}

\* The page dict of page i of each kind:
\*   plain      a text page (see PageDict)
\*   image      one image and no text: scanned
\*   caption    one text block of 15 characters or more beside an image:
\*              scanned for being a lone text block with an image
\*   furniture  a header and a footer, under 15 characters: scanned for
\*              having little text
ScanPageDict(kind, i) ==
    IF kind = "caption"
    THEN [width |-> 595,
          blocks |-> <<TextBlock(<<TextLine(CaptionText(i), 700, 11)>>), ImageBlock>>]
    ELSE PageDict(kind, i)

ScanDocuments ==
    UNION {{[i \in 1..n |-> ScanPageDict(kinds[i], i)] : kinds \in [1..n -> ScanKinds]}
           : n \in 1..MaxScanPages}

\* the options: local mode; OCR asked for or not; no page limit, a limit of
\* 0 or 1 page given as max_ocr_pages, or a limit of 1 page given under the
\* older name max_pages_ocr
ScanOptions ==
    {[doc_id |-> <<"i","d","s">>,
      mode |-> "local", simpletex_token |-> "",
      enable_ocr |-> ocr, max_ocr_pages |-> limits[1], max_pages_ocr |-> limits[2],
      multicolumn |-> TRUE, remove_headers_footers |-> TRUE,
      header_max_lines |-> 1, footer_max_lines |-> 1,
      min_repetition_ratio |-> <<3, 5>>,
      remove_page_numbers |-> TRUE, dehyphenate |-> TRUE,
      normalize_whitespace |-> TRUE, merge_paragraphs |-> TRUE]
     : ocr \in BOOLEAN,
       limits \in {<<None, None>>, <<<<0>>, None>>, <<<<1>>, None>>, <<None, <<1>>>>}}

\* process_pdf at core.py:61 on these documents, PaddleOCR installed or not
InitScan ==
    /\ doc \in ScanDocuments
    /\ opts \in ScanOptions
    /\ env \in {e \in Environments : ~e.simpletex_available}
    /\ pc = "resolve"
    /\ mode = "" /\ error = None /\ ocr_enabled = FALSE
    /\ remote = RemoteIdle
    /\ pages_data = <<>>
    /\ warnings = <<>>
    /\ ocr_images = <<>> /\ ocr_indices = <<>>
    /\ ocr_pages_used = 0
    /\ repeated_lines = {}
    /\ page_i = 0
    /\ blocks = <<>>
    /\ block_i = 0
    /\ median_size = None
    /\ segment_index = 0
    /\ page_paragraphs = <<>>
    /\ segments = <<>>
    /\ pages_records = <<>>
    /\ CallIdle

SpecScan == InitScan /\ [][NextRun]_vars

(***************************************************************************)
(* Properties of process_pdf.                                              *)
(***************************************************************************)
\* the segments emitted so far for page p, in emission order
SegmentsOfPage(p) == SelectSeq(segments, LAMBDA seg : seg.page = p)

RECURSIVE NumberOf(_)
\* the number a string of decimal digits denotes
NumberOf(digits) ==
    IF digits = <<>> THEN 0
    ELSE 10 * NumberOf(SubSeq(digits, 1, Len(digits) - 1))
         + (CHOOSE d \in 0..9 : DigitChar(d) = digits[Len(digits)])

\* tag followed by exactly three digits that denote n
IsTagged(part, tag, n) ==
    /\ Len(part) = 4
    /\ part[1] = tag
    /\ \A i \in 2..4 : part[i] \in Digit
    /\ NumberOf(Tail(part)) = n

\* id reads doc_id-pPPP-sSSS with PPP the page and SSS the index
HasIdShape(id, doc_id, page, index) ==
    LET parts == Split(id, "-")
    IN /\ Len(parts) = 3
       /\ parts[1] = doc_id
       /\ IsTagged(parts[2], "p", page)
       /\ IsTagged(parts[3], "s", index)

\* C1: at every point of a run, for every document and option combination,
\* the k-th segment emitted for a page carries the identifier
\* doc_id-p{page:03d}-s{k:03d}: per page the indices are 1, 2, ..., n in
\* emission order, whatever blocks were skipped, and each page starts at 1.
C1_IndicesCountFromOnePerPage ==
    \A p \in 1..Len(doc) :
      LET emitted == SegmentsOfPage(p)
      IN \A k \in 1..Len(emitted) : HasIdShape(emitted[k].segment_id, opts.doc_id, p, k)

\* C1 witness: a finished two-page run in which page 1 emitted a segment after
\* a block that was skipped whole, and page 2 emitted segments of its own
C1_Witness ==
    /\ pc = "done"
    /\ Len(SegmentsOfPage(2)) >= 2
    /\ \E b \in 1..Len(pages_data[1].blocks) :
         /\ BlockParagraphs(pages_data[1].blocks[b].text, opts, repeated_lines) = <<>>
         /\ \E later \in (b + 1)..Len(pages_data[1].blocks) :
              \E k \in 2..Len(SegmentsOfPage(1)) :
                SegmentsOfPage(1)[k].text = pages_data[1].blocks[later].text

\* every page of the document is a header line, the body line of that page
\* and a footer line
IsHeaderBodyFooterDoc ==
    /\ Len(doc) >= 2
    /\ \A i \in 1..Len(doc) : doc[i] = PageDict("plain", i)

\* C2: when every page is a header line H, a body line B_i of its own and a
\* footer line F, and the run removes headers and footers with
\* header_max_lines = footer_max_lines = 1, then no cleaned page text contains
\* H or F, and the cleaned text of page i contains B_i verbatim.
C2_FurnitureRemovedBodyKept ==
    (/\ pc = "done"
     /\ IsHeaderBodyFooterDoc
     /\ opts.remove_headers_footers
     /\ opts.header_max_lines = 1 /\ opts.footer_max_lines = 1)
    => \A i \in 1..Len(pages_records) :
         /\ ~Contains(pages_records[i].text, HeaderText)
         /\ ~Contains(pages_records[i].text, FooterText)
         /\ Contains(pages_records[i].text, BodyText(i))

\* C2 witness: such a run has finished, with the header and footer in the raw
\* page text of every page
C2_Witness ==
    /\ pc = "done"
    /\ IsHeaderBodyFooterDoc
    /\ opts.remove_headers_footers
    /\ opts.header_max_lines = 1 /\ opts.footer_max_lines = 1
    /\ Len(pages_records) = Len(doc)
    /\ \A i \in 1..Len(doc) :
         /\ Contains(pages_data[i].text, HeaderText)
         /\ Contains(pages_data[i].text, FooterText)
         /\ pages_records[i].text = BodyText(i)

\* the repeated-line set the detector gives for the lines of all pages
DetectedOverAllPages ==
    IF opts.remove_headers_footers
    THEN detect_header_footer_lines(PagesLines(pages_data), opts.header_max_lines,
                                    opts.footer_max_lines, opts.min_repetition_ratio)
    ELSE {}

\* a segment or a page record has been produced
OutputStarted == segments # <<>> \/ pages_records # <<>>

\* C13: two-pass ordering.  Once a segment or a page record has been
\* produced, every page has been scanned, no page still waits for its OCR
\* result, and the repeated-line set is the one the detector gives for the
\* lines of all pages as they are after the OCR merge; and from the first
\* segment or page record to the end of the run no step changes the
\* repeated-line set.
C13_DetectionBeforeOutput ==
    /\ [](OutputStarted
          => /\ pc \in {"page", "block", "done"}
             /\ Len(pages_data) = Len(doc)
             /\ \A i \in 1..Len(pages_data) : pages_data[i].source_mode # "ocr:pending"
             /\ repeated_lines = DetectedOverAllPages)
    /\ [][OutputStarted => repeated_lines' = repeated_lines]_vars

\* C13 witness: a segment has been produced in a run that found repeated
\* lines and merged an OCR result into a page
C13_Witness ==
    /\ segments # <<>>
    /\ repeated_lines # {}
    /\ \E i \in 1..Len(pages_data) : pages_data[i].source_mode = "ocr:paddle"

\* the requested mode is not one process_pdf knows
ModeUnrecognized == opts.mode \notin {"", "local", "simpletex_markdown", "auto"}

\* a remote mode is requested without its token or without its dependencies
ModeContradictory ==
    /\ opts.mode \in {"simpletex_markdown", "auto"}
    /\ opts.simpletex_token = "" \/ ~env.simpletex_available

\* C14: for every requested mode, token presence and dependency
\* availability, mode resolution raises no error; when the mode is
\* unrecognized or the combination contradictory, the resolved mode is
\* local and a warning is recorded.
C14_ResolutionNeverRaises ==
    pc # "resolve"
    => /\ error \notin {<<"RuntimeError", "SimpleTex dependencies missing">>,
                      <<"RuntimeError", "SimpleTex token missing">>}
       /\ (ModeUnrecognized \/ ModeContradictory)
          => (mode = "local" /\ warnings # <<>>)

\* C14 witness: a simpletex_markdown run without a token, the dependencies
\* installed, is past mode resolution
C14_Witness ==
    /\ pc # "resolve"
    /\ opts.mode = "simpletex_markdown"
    /\ opts.simpletex_token = "" /\ env.simpletex_available

\* the OCR batch call has failed
OcrBatchFailed ==
    \E n \in 1..Len(warnings) : warnings[n] = <<"OCR parallel failed">>

\* page i holds what was extracted from it
KeepsExtracted(i) ==
    /\ pages_data[i].text = extract_page_text(doc[i].blocks)
    /\ pages_data[i].blocks = extract_blocks(doc[i].blocks)
    /\ pages_data[i].lines = extract_lines(doc[i].blocks)

\* C15: once the OCR batch call has failed, a warning is recorded, every
\* page queued for OCR has source_mode extract:failed_ocr and its extracted
\* text, blocks and lines, no page has source_mode ocr:pending, the run goes
\* on through detection and the page loop without raising, and at its end
\* there is one page record for every page, in page order.
C15_OcrFailureRecovered ==
    OcrBatchFailed
    => /\ \A n \in 1..Len(ocr_indices) :
            /\ pages_data[ocr_indices[n] + 1].source_mode = "extract:failed_ocr"
            /\ KeepsExtracted(ocr_indices[n] + 1)
       /\ \A i \in 1..Len(pages_data) : pages_data[i].source_mode # "ocr:pending"
       /\ pc \in {"detect", "page", "block", "done"} /\ error = None
       /\ pc = "page" => page_i <= Len(pages_data)
       /\ pc = "done"
          => /\ Len(pages_records) = Len(doc)
             /\ \A i \in 1..Len(doc) :
                  /\ pages_records[i].page = i
                  /\ pages_records[i].source_mode = pages_data[i].source_mode

\* C15 witness: a run whose OCR batch failed with two pages queued has
\* ended, a text page among its pages
C15_Witness ==
    /\ OcrBatchFailed
    /\ pc = "done"
    /\ Len(ocr_indices) = 2
    /\ Len(doc) = 3

\* the avg font sizes of the blocks of page p that report a size, sorted
ReportedSizes(p) ==
    LET blks == pages_data[p].blocks
    IN SortRats(SelectSeq([j \in 1..Len(blks) |-> blks[j].avg_size], Truthy))

\* the statistical median of a sorted list of values: the middle value, or
\* the midpoint of the two middle values of an even number of them
StatisticalMedian(sorted) ==
    LET n == Len(sorted)
    IN IF n % 2 = 1 THEN sorted[(n + 1) \div 2]
       ELSE RatMul(RatAdd(sorted[n \div 2], sorted[n \div 2 + 1]), <<1, 2>>)

\* the median passed to classify_role in the block loop is the statistical
\* median of the page's reported sizes, absent when no block reports one
MedianIsStatistical ==
    pc = "block" =>
        median_size = IF ReportedSizes(page_i) = <<>> THEN None
                      ELSE StatisticalMedian(ReportedSizes(page_i))

\* C22: the page median font size that process_pdf passes to classify_role
\* for every paragraph of a page equals the statistical median of the avg
\* font sizes of that page's blocks that report a size (for an even number
\* of such blocks, the midpoint of the two middle values), is computed once
\* per page (it does not change within the page's block loop), and is
\* absent when no block reports a size.
C22_MedianIsStatistical ==
    /\ []MedianIsStatistical
    /\ [][(pc = "block" /\ pc' = "block") => median_size' = median_size]_vars

\* C22 witness: the block loop of a page has passed the median to the
\* classifier for a segment of a page with two blocks that report
\* different sizes
C22_Witness ==
    /\ pc = "block" /\ page_i = 1 /\ block_i > 1
    /\ Len(SegmentsOfPage(1)) >= 1
    /\ Len(ReportedSizes(1)) = 2
    /\ ReportedSizes(1)[1] # ReportedSizes(1)[2]

\* the block of its page that a segment was made from
SourceBlock(seg) ==
    LET blks == pages_data[seg.page].blocks
    IN blks[CHOOSE j \in 1..Len(blks) : blks[j].bbox = seg.bbox]

\* the lines of a block's text that the header/footer step keeps
KeptLines(block) ==
    SelectSeq(Split(block.text, NL),
              LAMBDA line : normalize_line(line) \notin repeated_lines)

\* C24 as stated: with remove_headers_footers enabled, no emitted segment
\* has a normalized text that is a member of the repeated-line set, and no
\* segment has the role header, whatever the block contents and the
\* merge_paragraphs / normalize_whitespace settings.
C24_NoHeaderSegment_AsStated ==
    opts.remove_headers_footers
    => \A k \in 1..Len(segments) :
         /\ normalize_line(segments[k].text) \notin repeated_lines
         /\ segments[k].role # "header"

\* C24, amended: with remove_headers_footers enabled, a segment has the
\* role header exactly when its normalized text is in the repeated-line
\* set, and then it was joined from two or more kept lines of its block, none
\* of them a repeated line; a segment made from one kept line is never a
\* header.
C24_NoHeaderSegment ==
    opts.remove_headers_footers
    => \A k \in 1..Len(segments) :
         /\ segments[k].role = "header"
            <=> normalize_line(segments[k].text) \in repeated_lines
         /\ segments[k].role = "header"
            => Len(KeptLines(SourceBlock(segments[k]))) >= 2

\* C24 witness: with removal enabled and the header and footer detected,
\* the run has ended with the header's and the footer's blocks dropped from
\* every page, and with a segment of the role header that was joined from
\* the lines "a" and "b"
C24_Witness ==
    /\ opts.remove_headers_footers
    /\ repeated_lines = {FrameHeader, FrameFooter}
    /\ pc = "done"
    /\ \A k \in 1..Len(segments) : segments[k].bbox[2] = 100
    /\ \E k \in 1..Len(segments) :
         /\ segments[k].role = "header"
         /\ KeptLines(SourceBlock(segments[k])) = <<<<"a">>, <<"b">>>>

\* core.py:112-114  page p of the document is flagged scanned
IsScanned(p) ==
    \/ Len(remove_whitespace(extract_page_text(doc[p].blocks))) < ScannedMinChars
    \/ /\ BlockStats(doc[p].blocks).text_blocks <= 1
       /\ BlockStats(doc[p].blocks).image_blocks > 0

\* the warnings recorded for page p
WarningsOf(p) == SelectSeq(warnings, LAMBDA w : Len(w) = 2 /\ w[2] = p)

\* the page scan is under way or has just ended
InPageScan == pc \in {"scan", "ocr"} \/ (pc = "detect" /\ ocr_indices = <<>>)

\* C25: at every point of the page-scan loop the number of queued OCR
\* images equals the number of queued page indices equals ocr_pages_used,
\* and never exceeds a configured page limit; only pages flagged scanned
\* with OCR enabled are queued, each once with its own image; and every
\* scanned page that is not queued (budget exhausted, render failure, or
\* OCR disabled) has source_mode extract:failed_ocr and exactly one warning.
C25_OcrBudget ==
    InPageScan
    => /\ Len(ocr_images) = Len(ocr_indices)
       /\ Len(ocr_indices) = ocr_pages_used
       /\ ResolvedMaxOcrPages(opts) # None
          => ocr_pages_used <= ResolvedMaxOcrPages(opts)[1]
       /\ \A n \in 1..Len(ocr_indices) :
            /\ ocr_indices[n] + 1 \in 1..Len(pages_data)
            /\ IsScanned(ocr_indices[n] + 1) /\ ocr_enabled
            /\ ocr_images[n] = RenderedPage(ocr_indices[n])
            /\ \A k \in 1..(n - 1) : ocr_indices[k] < ocr_indices[n]
       /\ \A p \in 1..Len(pages_data) :
            /\ IsQueued(p - 1)
               => pages_data[p].source_mode = "ocr:pending" /\ WarningsOf(p) = <<>>
            /\ (IsScanned(p) /\ ~IsQueued(p - 1))
               => /\ pages_data[p].source_mode = "extract:failed_ocr"
                  /\ Len(WarningsOf(p)) = 1
            /\ ~IsScanned(p)
               => /\ ~IsQueued(p - 1)
                  /\ pages_data[p].source_mode = "extract:text"
                  /\ WarningsOf(p) = <<>>

\* C25 witness: with OCR enabled and a limit of one page, the scan of two
\* scanned pages has queued the first and skipped the second for the budget
C25_Witness ==
    /\ pc = "ocr" /\ ocr_enabled
    /\ ResolvedMaxOcrPages(opts) = <<1>>
    /\ Len(pages_data) = 2
    /\ ocr_indices = <<0>> /\ ocr_pages_used = 1
    /\ WarningsOf(2) = <<<<"OCR skipped after max_ocr_pages", 2>>>>

(***************************************************************************)
(* The pure functions, called on their own: fn names the function, args    *)
(* holds its arguments, and the call action stores what it returns in ret. *)
(***************************************************************************)
\* process_pdf is not running
PipelineIdle ==
    /\ pc = "idle"
    /\ doc = <<>> /\ opts = <<>> /\ ocr_enabled = FALSE
    /\ pages_data = <<>> /\ warnings = <<>>
    /\ ocr_images = <<>> /\ ocr_indices = <<>> /\ ocr_pages_used = 0
    /\ repeated_lines = {}
    /\ page_i = 0 /\ blocks = <<>> /\ block_i = 0
    /\ median_size = None /\ segment_index = 0
    /\ page_paragraphs = <<>> /\ segments = <<>> /\ pages_records = <<>>
    /\ mode = "local" /\ env = NothingInstalled /\ error = None

\* neither process_pdf nor pdf_to_markdown is running
PdfIdle == PipelineIdle /\ remote = RemoteIdle

NotReturned == [returned |-> FALSE, value |-> <<>>]

Returned(value) == [returned |-> TRUE, value |-> value]

(***************************************************************************)
(* Text cleaning: dehyphenate_text on a text, and the cleaning of one      *)
(* block's text in the block loop.                                         *)
(***************************************************************************)
\* the longest text dehyphenate_text is called on
MaxTextLen == 7

\* the most lines of a block
MaxBlockLines == 3

TextChars == {"a", "1", "-", NL}

\* every text of at most MaxTextLen characters
Texts == UNION {[1..n -> TextChars] : n \in 0..MaxTextLen}

\* the lines a block is made of: hyphen-terminated fragments of one and of
\* two characters, continuations that begin with a letter, a digit, a space
\* and a hyphen, a sentence, and an empty line
BlockLineKinds ==
    {<<"a", "-">>, <<"b", "c", "-">>, <<"d">>, <<"1">>, <<"-">>, <<SP, "e">>,
     <<"f", ".">>, <<>>}

\* every block text of 1..MaxBlockLines such lines
BlockTexts ==
    UNION {{Join(lines, <<NL>>) : lines \in [1..n -> BlockLineKinds]}
           : n \in 1..MaxBlockLines}

\* the cleaning switches of the block loop, every combination
CleaningOptions ==
    {[remove_headers_footers |-> FALSE, remove_page_numbers |-> rpn,
      dehyphenate |-> dh, normalize_whitespace |-> nw, merge_paragraphs |-> mp]
     : rpn \in BOOLEAN, dh \in BOOLEAN, nw \in BOOLEAN, mp \in BOOLEAN}

\* the most lines given to merge_lines_into_paragraphs
MaxMergeLines == 4

\* the lines it is given: prose without and with a final full stop, padded
\* prose ending in a question mark, prose ending in an ideographic full
\* stop, a bulleted and a numbered list item, a lone bullet, an empty line
\* and a line of one space
MergeLineKinds ==
    {<<"a">>, <<"b", ".">>, <<SP, "e", "?", SP>>, <<"g", "IDEOGRAPHIC_FULL_STOP">>,
     <<"-", SP, "c">>, <<"1", ")", SP, "d">>, <<"-">>, <<>>, <<SP>>}

MergeInputs == UNION {[1..n -> MergeLineKinds] : n \in 0..MaxMergeLines}

\* the most lines of a block with page numbers
MaxPageLines == 3

\* the lines of such a block: numbers of two and of five digits, page
\* numbers written "PAGE  3" and "page 3 / 4", the word and the fraction on
\* lines of their own, the word hyphenated over two lines, and a sentence
PageLineKinds ==
    {<<"1", "2">>, <<"1", "2", "3", "4", "5">>,
     <<"P", "A", "G", "E", SP, SP, "3">>,
     <<"p", "a", "g", "e", SP, "3", SP, "/", SP, "4">>,
     <<"P", "a", "g", "e">>, <<"3", "/", "4">>,
     <<"p", "a", "-">>, <<"g", "e", SP, "1">>, <<"x", ".">>}

PageTexts ==
    UNION {{Join(lines, <<NL>>) : lines \in [1..n -> PageLineKinds]}
           : n \in 1..MaxPageLines}

\* the cleaning switches with the page-number step on
PageNumberOptions == {o \in CleaningOptions : o.remove_page_numbers}

\* the longest text given to normalize_whitespace
MaxWsLen == 6

\* every text of at most MaxWsLen letters, spaces, tabs and newlines
WsTexts == UNION {[1..n -> {"a", SP, TAB, NL}] : n \in 0..MaxWsLen}

InitText ==
    /\ PdfIdle
    /\ \/ fn = "dehyphenate_text" /\ \E text \in Texts : args = <<text>>
       \/ fn = "block_paragraphs"
          /\ \E text \in BlockTexts, o \in CleaningOptions : args = <<text, o>>
       \/ fn = "merge_lines_into_paragraphs"
          /\ \E lines \in MergeInputs : args = <<lines>>
       \/ fn = "normalize_whitespace" /\ \E text \in WsTexts : args = <<text>>
       \/ fn = "page_number_step"
          /\ \E text \in PageTexts, o \in PageNumberOptions : args = <<text, o>>
    /\ ret = NotReturned

\* core.py:206-225 on one block's text with remove_page_numbers set: the
\* lines the page-number step keeps, and the paragraphs emitted
CallPageNumberStep ==
    /\ fn = "page_number_step"
    /\ ~ret.returned
    /\ ret' = Returned([kept |-> page_number_step(Split(args[1], NL)),
                        paragraphs |-> BlockParagraphs(args[1], args[2], {})])
    /\ UNCHANGED <<pdfVars, fn, args>>

\* clean.normalize_whitespace(text)
CallNormalizeWhitespace ==
    /\ fn = "normalize_whitespace"
    /\ ~ret.returned
    /\ ret' = Returned(normalize_whitespace(args[1]))
    /\ UNCHANGED <<pdfVars, fn, args>>

\* clean.merge_lines_into_paragraphs(lines)
CallMerge ==
    /\ fn = "merge_lines_into_paragraphs"
    /\ ~ret.returned
    /\ ret' = Returned(merge_lines_into_paragraphs(args[1]))
    /\ UNCHANGED <<pdfVars, fn, args>>

\* clean.dehyphenate_text(text)
CallDehyphenate ==
    /\ fn = "dehyphenate_text"
    /\ ~ret.returned
    /\ ret' = Returned(dehyphenate_text(args[1]))
    /\ UNCHANGED <<pdfVars, fn, args>>

\* core.py:206-225 on one block's text, with no repeated lines detected
CallBlockParagraphs ==
    /\ fn = "block_paragraphs"
    /\ ~ret.returned
    /\ ret' = Returned(BlockParagraphs(args[1], args[2], {}))
    /\ UNCHANGED <<pdfVars, fn, args>>

NextText ==
    \/ CallDehyphenate \/ CallBlockParagraphs \/ CallMerge
    \/ CallNormalizeWhitespace \/ CallPageNumberStep

SpecText == InitText /\ [][NextText]_vars

\* C9: dehyphenate_text is idempotent: applied to its own result it returns
\* that result unchanged.
C9_DehyphenateIdempotent ==
    (fn = "dehyphenate_text" /\ ret.returned)
    => dehyphenate_text(ret.value) = ret.value

\* position p of text holds the hyphen of a hyphen-break that meets both
\* character conditions: alphanumeric before it, newline and a letter after
IsQualifyingBreak(text, p) ==
    /\ 1 < p /\ p + 2 <= Len(text)
    /\ text[p - 1] \in AlnumChar
    /\ text[p] = "-"
    /\ text[p + 1] = NL
    /\ text[p + 2] \in Letter

RECURSIVE JoinBreaksFrom(_, _)
\* text from position p on, without the hyphen and newline of every
\* qualifying break
JoinBreaksFrom(text, p) ==
    IF p > Len(text) THEN <<>>
    ELSE IF IsQualifyingBreak(text, p) THEN JoinBreaksFrom(text, p + 2)
    ELSE <<text[p]>> \o JoinBreaksFrom(text, p + 1)

\* C10: with dehyphenate enabled (and the other steps that rewrite a block
\* off, so that the emitted paragraph is the block's text), every hyphen-break
\* between two consecutive lines that meets both character conditions is
\* removed, joining the two fragments, and everything else, a break that does
\* not meet them and a final "-" included, is left as it was.
C10_EveryQualifyingBreakJoined ==
    (/\ fn = "block_paragraphs" /\ ret.returned
     /\ args[2].dehyphenate
     /\ ~args[2].remove_page_numbers /\ ~args[2].normalize_whitespace
     /\ ~args[2].merge_paragraphs)
    => ret.value = IF Strip(args[1]) = <<>> THEN <<>>
                   ELSE <<JoinBreaksFrom(args[1], 1)>>

\* the list-item pattern: a bullet, digits with "." or ")", or a letter with
\* ")", and whitespace after it
LooksLikeListItem(line) ==
    \E n \in 1..(Len(line) - 1) :
      /\ line[n + 1] \in Whitespace
      /\ \/ n = 1 /\ line[1] \in BulletChar
         \/ /\ n >= 2 /\ line[n] \in {".", ")"}
            /\ \A i \in 1..(n - 1) : line[i] \in Digit
         \/ n = 2 /\ line[1] \in Letter /\ line[2] = ")"

\* line i of the call's lines is prose: not blank and not a list item
IsProseLine(i) ==
    /\ Strip(args[1][i]) # <<>>
    /\ ~LooksLikeListItem(Strip(args[1][i]))

\* C11: every line that, stripped, matches the list-item pattern is a
\* paragraph of its own, equal to the stripped line: the lines before it
\* give the paragraphs they give on their own (a pending buffer is closed
\* before the item), and so do the lines after it (the next line starts a
\* new paragraph).
C11_ListItemStandsAlone ==
    (fn = "merge_lines_into_paragraphs" /\ ret.returned)
    => \A i \in 1..Len(args[1]) :
         LooksLikeListItem(Strip(args[1][i]))
         => ret.value = merge_lines_into_paragraphs(SubSeq(args[1], 1, i - 1))
                        \o <<Strip(args[1][i])>>
                        \o merge_lines_into_paragraphs(SubSeq(args[1], i + 1, Len(args[1])))

\* C11 witness: a call has returned for a list item that has unfinished
\* prose directly before it and prose directly after it
C11_Witness ==
    /\ fn = "merge_lines_into_paragraphs" /\ ret.returned
    /\ \E i \in 2..(Len(args[1]) - 1) :
         /\ LooksLikeListItem(Strip(args[1][i]))
         /\ IsProseLine(i - 1) /\ IsProseLine(i + 1)
         /\ args[1][i - 1] = <<"a">>
         /\ Len(ret.value) = 3

\* the stripped line ends in sentence-terminal punctuation
EndsInTerminal(line) ==
    Strip(line)[Len(Strip(line))] \in {".", "!", "?", "IDEOGRAPHIC_FULL_STOP",
                                       "FULLWIDTH_EXCLAMATION", "FULLWIDTH_QUESTION"}

\* the paragraphs given by the first i lines of the call; line i, when it is
\* prose, is in the last of them
ParagraphsUpTo(i) == merge_lines_into_paragraphs(SubSeq(args[1], 1, i))

\* text begins with start
StartsWith(text, start) ==
    Len(start) <= Len(text) /\ SubSeq(text, 1, Len(start)) = start

\* C12: two consecutive prose lines of which the first does not end in
\* sentence-terminal punctuation are in the same paragraph of the result:
\* the second adds no paragraph, and the paragraph of the first goes on with
\* a space and the second line.  A paragraph break between two consecutive
\* prose lines occurs only after terminal punctuation.
C12_SentenceNotSplit ==
    (fn = "merge_lines_into_paragraphs" /\ ret.returned)
    => \A i \in 1..(Len(args[1]) - 1) :
         (IsProseLine(i) /\ IsProseLine(i + 1))
         => LET k == Len(ParagraphsUpTo(i))
                joined == ParagraphsUpTo(i)[k] \o <<SP>> \o Strip(args[1][i + 1])
            IN /\ ~EndsInTerminal(args[1][i])
                  => /\ Len(ParagraphsUpTo(i + 1)) = k
                     /\ k <= Len(ret.value)
                     /\ StartsWith(ret.value[k], joined)
               /\ Len(ParagraphsUpTo(i + 1)) # k => EndsInTerminal(args[1][i])

\* C12 witness: a call has returned one paragraph for three prose lines,
\* the first two without terminal punctuation
C12_Witness ==
    /\ fn = "merge_lines_into_paragraphs" /\ ret.returned
    /\ Len(args[1]) = 3
    /\ \A i \in 1..3 : IsProseLine(i)
    /\ ~EndsInTerminal(args[1][1]) /\ ~EndsInTerminal(args[1][2])
    /\ Len(ret.value) = 1

\* the input lines of the call that are not blank
NonBlankLines == SelectSeq(args[1], LAMBDA line : Strip(line) # <<>>)

\* C26: merge_lines_into_paragraphs preserves content and order: for every
\* input line sequence, the concatenation of the output paragraphs with all
\* whitespace removed equals the concatenation of the input lines with all
\* whitespace removed, no output paragraph is empty, and there are no more
\* output paragraphs than non-blank input lines.
C26_MergePreservesContent ==
    (fn = "merge_lines_into_paragraphs" /\ ret.returned)
    => /\ remove_whitespace(Concat(ret.value)) = remove_whitespace(Concat(args[1]))
       /\ \A k \in 1..Len(ret.value) : ret.value[k] # <<>>
       /\ Len(ret.value) <= Len(NonBlankLines)

\* C26 witness: a call has returned fewer paragraphs than it was given
\* non-blank lines, for lines among which are a blank line, a padded line, a
\* finished sentence and a list item
C26_Witness ==
    /\ fn = "merge_lines_into_paragraphs" /\ ret.returned
    /\ Len(ret.value) = 2 /\ Len(NonBlankLines) = 3
    /\ \E i, j, k, l \in 1..Len(args[1]) :
         /\ args[1][i] = <<SP>>
         /\ args[1][j] = <<SP, "e", "?", SP>>
         /\ args[1][k] = <<"a">>
         /\ is_list_item(args[1][l])

\* text without its characters at the positions in drop
RECURSIVE Without(_, _, _)
Without(text, drop, i) ==
    IF i > Len(text) THEN <<>>
    ELSE (IF i \in drop THEN <<>> ELSE <<text[i]>>) \o Without(text, drop, i + 1)

\* the positions of text that are the first of a run of spaces and tabs
RunStarts(text) ==
    {i \in 1..Len(text) :
       text[i] \in {SP, TAB} /\ (i = 1 \/ text[i - 1] \notin {SP, TAB})}

\* each run of spaces and tabs of text written as one space
OneSpacePerRun(text) ==
    LET kept == Without(text, {i \in 1..Len(text) :
                                 text[i] \in {SP, TAB} /\ i \notin RunStarts(text)}, 1)
    IN [i \in 1..Len(kept) |-> IF kept[i] = TAB THEN SP ELSE kept[i]]

\* the spaces of text that have a newline directly before or after them
AbuttingSpaces(text) ==
    {i \in 1..Len(text) :
       /\ text[i] = SP
       /\ \/ i > 1 /\ text[i - 1] = NL
          \/ i < Len(text) /\ text[i + 1] = NL}

\* the reference transform: runs of spaces and tabs collapsed to one space,
\* the spaces abutting a newline deleted, the whole trimmed
ReferenceNormalize(text) ==
    LET collapsed == OneSpacePerRun(text)
    IN Strip(Without(collapsed, AbuttingSpaces(collapsed), 1))

\* C20: normalize_whitespace returns what the reference transform returns:
\* runs of spaces and tabs collapsed to one space, the spaces abutting a
\* newline deleted, the text trimmed, and every line break between content,
\* blank-line separators included, as in the input.
C20_EqualsReference ==
    (fn = "normalize_whitespace" /\ ret.returned)
    => ret.value = ReferenceNormalize(args[1])

\* C20 witness: a call has returned for a text that has a blank line between
\* two letters
C20_Witness ==
    /\ fn = "normalize_whitespace" /\ ret.returned
    /\ \E i \in 1..(Len(args[1]) - 3) :
         /\ args[1][i] = "a" /\ args[1][i + 1] = NL
         /\ args[1][i + 2] = NL /\ args[1][i + 3] = "a"

\* text is one or more digits
AllDigits(text) == text # <<>> /\ \A i \in 1..Len(text) : text[i] \in Digit

\* text is "page", in any case, whitespace and a number N, or that and "/"
\* and a number M with optional whitespace around the "/"
IsPageOf(text) ==
    /\ Len(text) >= 6
    /\ text[1] \in {"p", "P"} /\ text[2] \in {"a", "A"}
    /\ text[3] \in {"g", "G"} /\ text[4] \in {"e", "E"}
    /\ text[5] \in Whitespace
    /\ LET rest == LStrip(SubSeq(text, 5, Len(text)))
       IN \/ AllDigits(rest)
          \/ \E i \in 2..(Len(rest) - 1) :
               /\ rest[i] = "/"
               /\ AllDigits(RStrip(SubSeq(rest, 1, i - 1)))
               /\ AllDigits(LStrip(SubSeq(rest, i + 1, Len(rest))))

\* the normalized form of line is page-number-shaped: 1 to 4 digits, or
\* "page N", or "page N/M"
PageNumberShaped(line) ==
    LET form == normalize_line(line)
    IN (AllDigits(form) /\ Len(form) <= 4) \/ IsPageOf(form)

\* the lines of the emitted paragraphs
OutputLines(paragraphs) ==
    UNION {{Split(paragraphs[k], NL)[j] : j \in 1..Len(Split(paragraphs[k], NL))}
           : k \in 1..Len(paragraphs)}

\* the page-number step has kept exactly the lines of the block's text that
\* are not page-number-shaped, in their order
RemovedIffShaped ==
    ret.value.kept
      = SelectSeq(Split(args[1], NL), LAMBDA line : ~PageNumberShaped(line))

\* C17 as stated: with remove_page_numbers set, a line of the block's text
\* is removed by the page-number step if and only if its normalized form is
\* page-number-shaped, every other line is retained, and no line of the
\* cleaned output is a page number.
C17_PageNumbersRemoved_AsStated ==
    (fn = "page_number_step" /\ ret.returned)
    => /\ RemovedIffShaped
       /\ \A line \in OutputLines(ret.value.paragraphs) : ~PageNumberShaped(line)

\* C17: with remove_page_numbers set, a line of the block's text is removed
\* by the page-number step if and only if its normalized form is
\* page-number-shaped, and every other line is retained.  No line of the
\* cleaned output is a number of 1 to 4 digits, and none is
\* page-number-shaped unless dehyphenation or paragraph merging has joined
\* it from lines that are not.
C17_PageNumbersRemoved ==
    (fn = "page_number_step" /\ ret.returned)
    => /\ RemovedIffShaped
       /\ \A line \in OutputLines(ret.value.paragraphs) :
            /\ ~(AllDigits(normalize_line(line)) /\ Len(normalize_line(line)) <= 4)
            /\ PageNumberShaped(line)
               => /\ args[2].dehyphenate \/ args[2].merge_paragraphs
                  /\ \A kept \in 1..Len(ret.value.kept) :
                       normalize_line(ret.value.kept[kept]) # normalize_line(line)

\* C17 witness: a call has returned for a block of a sentence between a
\* number and a "page N / M" line, and has kept the sentence alone
C17_Witness ==
    /\ fn = "page_number_step" /\ ret.returned
    /\ Len(Split(args[1], NL)) = 3
    /\ PageNumberShaped(Split(args[1], NL)[1])
    /\ Split(args[1], NL)[2] = <<"x", ".">>
    /\ IsPageOf(normalize_line(Split(args[1], NL)[3]))
    /\ ret.value.kept = <<<<"x", ".">>>>
    /\ ret.value.paragraphs = <<<<"x", ".">>>>

\* line is blank, or is removed by a removal step the run has switched on
IsStrippedLine(line) ==
    \/ Strip(line) = <<>>
    \/ opts.remove_page_numbers /\ PageNumberShaped(line)
    \/ opts.remove_headers_footers /\ normalize_line(line) \in repeated_lines

\* page i has no text block, or the text of its blocks is all blank or
\* stripped
IsEmptyPage(i) ==
    \A b \in 1..Len(doc[i].blocks) :
      \/ doc[i].blocks[b].type # 0
      \/ \A n \in 1..Len(doc[i].blocks[b].lines) :
           IsStrippedLine(doc[i].blocks[b].lines[n].text)

\* C18: every emitted segment has text with a character that is not
\* whitespace, whatever the cleaning options; the page records are one per
\* page, in page order; and a page with no blocks, or whose block text is
\* all blank or stripped, yields no segment, no error, and its page record.
C18_NoEmptySegment ==
    /\ \A k \in 1..Len(segments) : Strip(segments[k].text) # <<>>
    /\ \A i \in 1..Len(pages_records) : pages_records[i].page = i
    /\ error = None /\ pc # "raised"
    /\ pc \in {"page", "block"} => Len(pages_records) = page_i - 1
    /\ pc = "done"
       => /\ Len(pages_records) = Len(doc)
          /\ \A i \in 1..Len(doc) :
               IsEmptyPage(i) => (SegmentsOfPage(i) = <<>> /\ pages_records[i].text = <<>>)

\* C18 witness: a run has ended on a document whose first page is a lone
\* page number and a blank block, stripped with remove_page_numbers, and
\* whose second page has text that is emitted
C18_Witness ==
    /\ pc = "done"
    /\ Len(doc) = 2
    /\ doc[1] = PageDict("numbered", 1)
    /\ opts.remove_page_numbers
    /\ IsEmptyPage(1) /\ ~IsEmptyPage(2)
    /\ SegmentsOfPage(1) = <<>> /\ SegmentsOfPage(2) # <<>>

(***************************************************************************)
(* Reading order: order_blocks on the blocks of one page.                  *)
(***************************************************************************)
\* the most blocks of a page
MaxBlocks == 5

\* where a block sits: the left column at x0 = 0 ("L") or a little off it
\* ("l"), the right column at x0 = 400 ("R"), across the page ("W"), or
\* nowhere, having no bounding box ("N")
BlockPlaces == {"L", "l", "R", "W", "N"}

\* the bounding box of a block of 8 points height with its top at y
BoxAt(place, y) ==
    CASE place = "L" -> <<0, y, 180, y + 8>>
      [] place = "l" -> <<5, y, 185, y + 8>>
      [] place = "R" -> <<400, y, 580, y + 8>>
      [] place = "W" -> <<50, y, 550, y + 8>>
      [] OTHER -> None

\* The page whose i-th block (in the order of the list) sits at places[i]:
\* the blocks go down the page in list order, or up it when bottom_up, and
\* the text of a block is its number in the list.
LayoutPage(places, bottom_up) ==
    LET n == Len(places)
        block(i) == [text |-> Decimal(i),
                     bbox |-> BoxAt(places[i], 10 * (IF bottom_up THEN n + 1 - i ELSE i))]
    IN SubSeq([i \in 1..n |-> block(i)], 1, n)

LayoutPages ==
    UNION {{LayoutPage(places, bottom_up) : places \in [1..n -> BlockPlaces],
                                            bottom_up \in BOOLEAN}
           : n \in 0..MaxBlocks}

\* the most x-coordinates given to choose_column_count
MaxCoords == 5

\* the left edges it is given: two close ones, and two far from them
Coords == {0, 10, 100, 300}

CoordLists == UNION {[1..n -> Coords] : n \in 0..MaxCoords}

InitLayout ==
    /\ PdfIdle
    /\ \/ /\ fn = "order_blocks"
          /\ \E page_blocks \in LayoutPages : args = <<page_blocks, 600>>   \* a page 600 points wide
       \/ /\ fn = "choose_column_count"
          /\ \E x0s \in CoordLists : args = <<x0s>>
    /\ ret = NotReturned

\* layout.choose_column_count(x0s)
CallChooseColumnCount ==
    /\ fn = "choose_column_count"
    /\ ~ret.returned
    /\ ret' = Returned(choose_column_count(args[1]))
    /\ UNCHANGED <<pdfVars, fn, args>>

\* layout.order_blocks(blocks, page_width)
CallOrderBlocks ==
    /\ fn = "order_blocks"
    /\ ~ret.returned
    /\ ret' = Returned(order_blocks(args[1], args[2]))
    /\ UNCHANGED <<pdfVars, fn, args>>

NextLayout == CallOrderBlocks \/ CallChooseColumnCount

SpecLayout == InitLayout /\ [][NextLayout]_vars

\* the positions of block b in the list
PositionsIn(list, b) == {i \in 1..Len(list) : list[i] = b}

\* C3: the output of order_blocks is a permutation of its input (every block
\* occurs as often in the output as in the input), every block without a
\* bounding box comes after every block with one, and the blocks without a
\* bounding box keep their relative order.
C3_PermutationBoxlessLast ==
    (fn = "order_blocks" /\ ret.returned)
    => LET input == args[1]
           output == ret.value
       IN /\ Len(output) = Len(input)
          /\ \A i \in 1..Len(input) :
               Cardinality(PositionsIn(output, input[i]))
                 = Cardinality(PositionsIn(input, input[i]))
          /\ \A i, j \in 1..Len(output) :
               (~HasBBox(output[i]) /\ HasBBox(output[j])) => j < i
          /\ SelectSeq(output, LAMBDA b : ~HasBBox(b))
               = SelectSeq(input, LAMBDA b : ~HasBBox(b))

\* C3 witness: order_blocks has returned for a page that mixes blocks with
\* and without a bounding box
C3_Witness ==
    /\ fn = "order_blocks" /\ ret.returned
    /\ \E i, j \in 1..Len(args[1]) : HasBBox(args[1][i]) /\ ~HasBBox(args[1][j])

\* the column a boxed block is set in: 0 across the page, 1 left, 2 right
ColumnOf(b, page_width) ==
    IF 10 * (b.bbox[3] - b.bbox[1]) >= 7 * page_width THEN 0
    ELSE IF 2 * b.bbox[1] < page_width THEN 1
    ELSE 2

\* the narrow blocks of the page, from the top of the page down
NarrowDownPage(page_blocks, page_width) ==
    SortByTop(SelectSeq(page_blocks, LAMBDA b : ColumnOf(b, page_width) # 0))

\* every block has a bounding box and, going down the page, the narrow blocks
\* are by turns in the left and in the right column
IsAlternatingTwoColumnPage(page_blocks, page_width) ==
    /\ \A i \in 1..Len(page_blocks) : HasBBox(page_blocks[i])
    /\ LET narrow == NarrowDownPage(page_blocks, page_width)
       IN \A i \in 1..(Len(narrow) - 1) :
            ColumnOf(narrow[i], page_width) # ColumnOf(narrow[i + 1], page_width)

\* output lists exactly the blocks of input: the blocks across the page
\* first, then the left column, then the right column, each from the top down
IsReadingOrder(output, input, page_width) ==
    /\ Len(output) = Len(input)
    /\ \A i \in 1..Len(input) : PositionsIn(output, input[i]) # {}
    /\ \A i, j \in 1..Len(output) :
         i < j =>
           \/ ColumnOf(output[i], page_width) < ColumnOf(output[j], page_width)
           \/ /\ ColumnOf(output[i], page_width) = ColumnOf(output[j], page_width)
              /\ output[i].bbox[2] < output[j].bbox[2]

\* C8 as stated: on every page of width 600 whose blocks all have a bounding
\* box and whose narrow blocks alternate between a left column (x0 about 0)
\* and a right column (x0 about 400), however many narrow and full-width
\* blocks there are, order_blocks returns the full-width blocks by y, then
\* the left column top to bottom, then the right column top to bottom.
C8_TwoColumnOrder_AsStated ==
    (/\ fn = "order_blocks" /\ ret.returned
     /\ IsAlternatingTwoColumnPage(args[1], args[2]))
    => IsReadingOrder(ret.value, args[1], args[2])

\* the blocks of each column start at one and the same x0
ColumnsAligned(page_blocks, page_width) ==
    \A i, j \in 1..Len(page_blocks) :
      (/\ ColumnOf(page_blocks[i], page_width) # 0
       /\ ColumnOf(page_blocks[i], page_width) = ColumnOf(page_blocks[j], page_width))
      => page_blocks[i].bbox[1] = page_blocks[j].bbox[1]

\* C8, amended: the same, for pages with at least four narrow blocks in which
\* all blocks of a column start at exactly the same x0.
C8_TwoColumnOrder ==
    (/\ fn = "order_blocks" /\ ret.returned
     /\ IsAlternatingTwoColumnPage(args[1], args[2])
     /\ Len(NarrowDownPage(args[1], args[2])) >= 4
     /\ ColumnsAligned(args[1], args[2]))
    => IsReadingOrder(ret.value, args[1], args[2])

\* C8 witness: order_blocks has returned for such a page that also has a
\* full-width block below the first narrow one, listed from the bottom up
C8_Witness ==
    /\ fn = "order_blocks" /\ ret.returned
    /\ IsAlternatingTwoColumnPage(args[1], args[2])
    /\ Len(NarrowDownPage(args[1], args[2])) >= 4
    /\ ColumnsAligned(args[1], args[2])
    /\ Len(args[1]) = 5
    /\ ColumnOf(args[1][2], args[2]) = 0
    /\ args[1][1].bbox[2] > args[1][2].bbox[2]
    /\ ret.value # args[1]

\* going from k to k + 1 clusters reduces the inertia of the call's
\* coordinates by less than 20% of the inertia of k clusters; a zero inertia
\* is not reduced
ReducesByLessThanFifth(k) ==
    LET base == InertiaOfK(args[1], k)
        next_val == InertiaOfK(args[1], k + 1)
    IN \/ base = <<0, 1>>
       \/ RatLess(RatMul(<<5, 1>>, RatSub(base, next_val)), base)

\* the search stops at k
StopsAt(k) == k = 3 \/ ReducesByLessThanFifth(k)

\* C19: choose_column_count returns 1 for fewer than 4 x-coordinates;
\* otherwise it returns the smallest k of 1, 2, 3 such that k = 3 or going
\* from k to k + 1 clusters reduces the inertia by less than 20% of the
\* inertia of k clusters, a zero inertia counting as no improvement.  The
\* result is always 1, 2 or 3.
C19_SmallestSettledCount ==
    (fn = "choose_column_count" /\ ret.returned)
    => /\ ret.value \in {1, 2, 3}
       /\ Len(args[1]) < 4 => ret.value = 1
       /\ Len(args[1]) >= 4
          => /\ StopsAt(ret.value)
             /\ \A k \in 1..(ret.value - 1) : ~StopsAt(k)

\* C19 witness: a call has returned 2 for coordinates whose inertia is
\* positive with 2 clusters and is reduced by less than 20% by a third
C19_Witness ==
    /\ fn = "choose_column_count" /\ ret.returned
    /\ Len(args[1]) >= 4
    /\ ret.value = 2
    /\ InertiaOfK(args[1], 2) # <<0, 1>>
    /\ ReducesByLessThanFifth(2)

(***************************************************************************)
(* Repetition detection: detect_header_footer_lines on the bbox-bearing    *)
(* lines of the pages of a document.                                       *)
(***************************************************************************)
\* the most pages of a document given to the detector
MaxDetectPages == 3

\* a line of a page, with its top at y
LineAt(text, y) == [text |-> text, bbox |-> <<72, y, 300, y + 10>>]

\* The pages, as lists of lines:
\*   1  footer, header, body, listed out of vertical order
\*   2  the header string at the top and again at the bottom
\*   3  another line on top, the header second (with a leading space), a
\*      body line, the footer
\*   4  header and footer only
\*   5  no line at all
DetectPages ==
    {<<LineAt(<<"F">>, 90), LineAt(<<"H">>, 10), LineAt(<<"b", "1">>, 50)>>,
     <<LineAt(<<"H">>, 10), LineAt(<<"b", "2">>, 50), LineAt(<<"H">>, 90)>>,
     <<LineAt(<<"X">>, 10), LineAt(<<SP, "H">>, 20), LineAt(<<"b", "3">>, 50),
       LineAt(<<"F">>, 90)>>,
     <<LineAt(<<"H">>, 10), LineAt(<<"F">>, 90)>>,
     <<>>}

DetectDocuments == UNION {[1..n -> DetectPages] : n \in 0..MaxDetectPages}

\* min_repetition_ratio: the tenths of [0, 1]
Ratios == {<<n, 10>> : n \in 0..10}

InitDetect ==
    /\ PdfIdle
    /\ fn = "detect_header_footer_lines"
    /\ \E pages_lines \in DetectDocuments, header_max_lines \in 0..2,
          footer_max_lines \in 0..1, min_repetition_ratio \in Ratios :
         args = <<pages_lines, header_max_lines, footer_max_lines, min_repetition_ratio>>
    /\ ret = NotReturned

\* clean.detect_header_footer_lines(pages_lines, header_max_lines,
\* footer_max_lines, min_repetition_ratio)
CallDetect ==
    /\ fn = "detect_header_footer_lines"
    /\ ~ret.returned
    /\ ret' = Returned(detect_header_footer_lines(args[1], args[2], args[3], args[4]))
    /\ UNCHANGED <<pdfVars, fn, args>>

NextDetect == CallDetect

SpecDetect == InitDetect /\ [][NextDetect]_vars

\* the candidate strings of a call, one entry for each time one is counted
CandidateCounts == CountIncrements(args[1], args[2], args[3])

\* the candidate strings counted at least `least` times
CountedAtLeast(least) ==
    {CandidateCounts[i] : i \in {j \in 1..Len(CandidateCounts) :
        CountOf(CandidateCounts, CandidateCounts[j]) >= least}}

\* r is an integer nearest to total_pages * ratio + 0.5 (either one at a tie)
IsNearestInteger(r, total_pages, ratio) ==
    Abs(2 * ratio[2] * r - (2 * total_pages * ratio[1] + ratio[2])) <= ratio[2]

\* r is total_pages * ratio + 0.5 with its fraction cut off
IsTruncation(r, total_pages, ratio) ==
    /\ 2 * ratio[2] * r <= 2 * total_pages * ratio[1] + ratio[2]
    /\ 2 * ratio[2] * (r + 1) > 2 * total_pages * ratio[1] + ratio[2]

\* C4 as stated: for total_pages >= 2 the detector returns exactly the
\* candidates counted at least max(2, round(total_pages * ratio + 0.5)) times,
\* round being rounding to the nearest integer.
C4_ThresholdRounded_AsStated ==
    (fn = "detect_header_footer_lines" /\ ret.returned /\ Len(args[1]) >= 2)
    => \E r \in 0..(Len(args[1]) + 1) :
         /\ IsNearestInteger(r, Len(args[1]), args[4])
         /\ ret.value = CountedAtLeast(Max2(2, r))

\* C4, amended: for total_pages >= 2 the detector returns exactly the
\* candidates counted at least max(2, trunc(total_pages * ratio + 0.5)) times,
\* which is total_pages * ratio rounded to the nearest integer, halves upwards.
C4_ThresholdTruncated ==
    (fn = "detect_header_footer_lines" /\ ret.returned /\ Len(args[1]) >= 2)
    => \E r \in 0..(Len(args[1]) + 1) :
         /\ IsTruncation(r, Len(args[1]), args[4])
         /\ ret.value = CountedAtLeast(Max2(2, r))

\* C4 witness: a call has returned a candidate counted on 2 pages of 3 at
\* ratio 0.7, where 3 * 0.7 + 0.5 = 2.6 truncates to 2 and rounds to 3
C4_Witness ==
    /\ fn = "detect_header_footer_lines" /\ ret.returned
    /\ Len(args[1]) = 3
    /\ args[4] = <<7, 10>>
    /\ \E c \in ret.value : CountOf(CandidateCounts, c) = 2

\* text is, normalized, a line among the first header_max_lines lines of the
\* page in vertical order: fewer than header_max_lines lines lie above it
IsHeaderOn(page_lines, text, header_max_lines) ==
    \E i \in 1..Len(page_lines) :
      /\ normalize_line(page_lines[i].text) = text
      /\ Cardinality({j \in 1..Len(page_lines) :
                        page_lines[j].bbox[2] < page_lines[i].bbox[2]}) < header_max_lines

\* the non-empty strings that are a header on every page of the call
HeadersOfEveryPage ==
    {text \in {normalize_line(args[1][1][i].text) : i \in 1..Len(args[1][1])} :
       /\ text # <<>>
       /\ \A p \in 1..Len(args[1]) : IsHeaderOn(args[1][p], text, args[2])}

\* C5 as stated: for N >= 2 pages, any ratio and header_max_lines >= 1, a
\* non-empty normalized line that is a header on every page is in the
\* repeated set.
C5_HeaderOfEveryPageRepeated_AsStated ==
    (/\ fn = "detect_header_footer_lines" /\ ret.returned
     /\ Len(args[1]) >= 2 /\ args[2] >= 1)
    => HeadersOfEveryPage \subseteq ret.value

\* C5, amended: the same, when every page has more than
\* header_max_lines + footer_max_lines bbox-bearing lines (a page with no
\* more than that many is skipped by the detector).
C5_HeaderOfEveryPageRepeated ==
    (/\ fn = "detect_header_footer_lines" /\ ret.returned
     /\ Len(args[1]) >= 2 /\ args[2] >= 1
     /\ \A p \in 1..Len(args[1]) : Len(args[1][p]) > args[2] + args[3])
    => HeadersOfEveryPage \subseteq ret.value

\* C5 witness: a call on three pages with enough lines has returned, at
\* ratio 1, with a header of every page that is the second line of one of them
C5_Witness ==
    /\ fn = "detect_header_footer_lines" /\ ret.returned
    /\ Len(args[1]) = 3 /\ args[2] = 2 /\ args[4] = <<10, 10>>
    /\ \A p \in 1..Len(args[1]) : Len(args[1][p]) > args[2] + args[3]
    /\ \E p \in 1..Len(args[1]) : ~IsHeaderOn(args[1][p], <<"H">>, 1)
    /\ <<"H">> \in HeadersOfEveryPage

\* C6: the detector returns the empty set for every document of fewer than
\* two pages, whatever the pages hold and whatever the option values.
C6_FewerThanTwoPagesEmpty ==
    (fn = "detect_header_footer_lines" /\ ret.returned /\ Len(args[1]) < 2)
    => ret.value = {}

\* C6 witness: a call on a single page has returned, on which a string is
\* counted as often as the threshold asks
C6_Witness ==
    /\ fn = "detect_header_footer_lines" /\ ret.returned
    /\ Len(args[1]) = 1
    /\ CountedAtLeast(Threshold(1, args[4])) # {}

\* the pages of the call on which text is a header or footer candidate
CandidatePages(text) ==
    {p \in 1..Len(args[1]) :
        CountOf(PageCandidates(args[1][p], args[2], args[3]), text) >= 1}

\* text is counted more than once on some page of the call
CountedTwiceOnAPage(text) ==
    \E p \in 1..Len(args[1]) :
        CountOf(PageCandidates(args[1][p], args[2], args[3]), text) >= 2

\* max(2, t), t being total_pages * ratio + 0.5 with its fraction cut off
RequiredCount ==
    Max2(2, CHOOSE r \in 0..(Len(args[1]) + 1) : IsTruncation(r, Len(args[1]), args[4]))

\* C23 as stated: a string is in the set returned by
\* detect_header_footer_lines only if it is a header/footer candidate on at
\* least threshold (hence at least 2) distinct pages; two occurrences on one
\* page never make it repeated by themselves.
C23_CrossPageOnly_AsStated ==
    (fn = "detect_header_footer_lines" /\ ret.returned)
    => \A text \in ret.value :
         /\ Cardinality(CandidatePages(text)) >= 2
         /\ Cardinality(CandidatePages(text)) >= RequiredCount

\* C23, amended: a string is in the returned set only if the document has
\* at least 2 pages and the string is counted at least threshold (hence at
\* least 2) times, each page counting it once for every header or footer
\* candidate line that carries it; it is then a candidate on at least
\* threshold distinct pages when no page counts it twice.
C23_CrossPageOnly ==
    (fn = "detect_header_footer_lines" /\ ret.returned)
    => \A text \in ret.value :
         /\ Len(args[1]) >= 2
         /\ CandidatePages(text) # {}
         /\ CountOf(CandidateCounts, text) >= 2
         /\ CountOf(CandidateCounts, text) >= RequiredCount
         /\ ~CountedTwiceOnAPage(text)
            => Cardinality(CandidatePages(text)) >= RequiredCount

\* C23 witness: a call has returned a string that is the header and the
\* footer candidate of one page and a candidate of no other page
C23_Witness ==
    /\ fn = "detect_header_footer_lines" /\ ret.returned
    /\ \E text \in ret.value :
         /\ Cardinality(CandidatePages(text)) = 1
         /\ CountedTwiceOnAPage(text)

(***************************************************************************)
(* Role classification: classify_role on one paragraph.                    *)
(***************************************************************************)
\* the most characters beyond a length limit of a title that a text has
MaxOverLength == 1

\* n times the letter a
LettersA(n) == SubSeq([i \in 1..n |-> "a"], 1, n)

\* The paragraphs: blank; plain; a formula; a formula with a subscript; a
\* list item; a list item with a formula; table rows; a function name; a
\* fraction; a function of a fraction; and texts at and beyond the two
\* length limits.
ClassifyTexts ==
    {<<>>, <<SP, TAB>>,
     <<"H", "d">>,
     <<"a", SP, SP, "b">>,
     <<"a", "=", "b">>,
     <<"x", "_", "{", "i", "}", "=", "y">>,
     <<"-", SP, "a">>,
     <<"1", ".", SP, "a">>,
     <<"-", SP, "a", "=", "b">>,
     <<"1", SP, "2", SP, "3">>,
     <<"a", "|", "b", "|", "c">>,
     <<"s", "i", "n", SP, "x">>,
     <<"1", "/", "2">>,
     <<"s", "i", "n", SP, "1", "/", "2">>}
    \cup {LettersA(TitleMaxLen + d) : d \in 0..MaxOverLength}
    \cup {LettersA(WideTitleMaxLen + d) : d \in 0..MaxOverLength}

\* avg_size and page_median_size: absent, zero, or a size in points
FontSizeValues == {None, <<0, 1>>, <<10, 1>>, <<13, 1>>, <<27, 2>>}

\* bbox: absent, one column wide, just under and exactly 70% of the page
ClassifyBoxes == {None, <<0, 10, 180, 18>>, <<0, 10, 419, 18>>, <<0, 10, 420, 18>>}

\* the repeated set: empty, the header, or a formula and a list item
RepeatedSets == {{}, {<<"H", "d">>}, {<<"a", "=", "b">>, <<"-", SP, "a">>}}

InitClassify ==
    /\ PdfIdle
    /\ fn = "classify_role"
    /\ \E text \in ClassifyTexts, avg_size \in FontSizeValues,
          page_median_size \in {None, <<10, 1>>}, page_width \in {0, 600},
          bbox \in ClassifyBoxes, repeated \in RepeatedSets, math_hint \in BOOLEAN :
         args = <<text, avg_size, page_median_size, page_width, bbox, repeated, math_hint>>
    /\ ret = NotReturned

\* segment.classify_role(text, avg_size, page_median_size, page_width, bbox,
\* repeated_headers_footers, math_hint)
CallClassify ==
    /\ fn = "classify_role"
    /\ ~ret.returned
    /\ ret' = Returned(classify_role(args[1], args[2], args[3], args[4], args[5],
                                     args[6], args[7]))
    /\ UNCHANGED <<pdfVars, fn, args>>

NextClassify == CallClassify

SpecClassify == InitClassify /\ [][NextClassify]_vars

\* The rules in their order, each with whether it matches the arguments of
\* the call and the label it gives.
ClassifyRules ==
    LET norm == normalize_line(args[1])
        score == math_score(norm)
        sized == Truthy(args[2]) /\ Truthy(args[3])
    IN <<[matches |-> norm = <<>>, label |-> "unknown"],
         [matches |-> norm \in args[6], label |-> "header"],
         [matches |-> args[7] \/ score >= 2,
          label |-> IF score >= 4 THEN "math_complex" ELSE "math"],
         [matches |-> is_list_item(norm), label |-> "list_item"],
         [matches |-> is_table_like(norm), label |-> "table_like"],
         [matches |-> /\ sized
                      /\ 10 * args[2][1] * args[3][2] > 13 * args[3][1] * args[2][2]
                      /\ Len(norm) <= 80,
          label |-> "title"],
         [matches |-> /\ args[5] # None /\ args[4] > 0
                      /\ 10 * (args[5][3] - args[5][1]) >= 7 * args[4]
                      /\ Len(norm) <= 120,
          label |-> "title"],
         [matches |-> TRUE, label |-> "paragraph"]>>

\* the first rule that matches
FirstMatch == CHOOSE i \in 1..Len(ClassifyRules) :
    /\ ClassifyRules[i].matches
    /\ \A j \in 1..(i - 1) : ~ClassifyRules[j].matches

\* C7: classify_role returns the label of the first rule that matches, in
\* the order unknown, header, math, list_item, table_like, title by font
\* size, title by width, paragraph: an earlier rule wins over a later one.
C7_FirstMatchingRule ==
    (fn = "classify_role" /\ ret.returned)
    => ret.value = ClassifyRules[FirstMatch].label

\* C7 witness: a call has returned header for a repeated line that is a
\* formula passed with math_hint, and would also be a title by font size
C7_Witness ==
    /\ fn = "classify_role" /\ ret.returned
    /\ ret.value = "header"
    /\ ClassifyRules[3].matches /\ args[7]
    /\ ClassifyRules[6].matches

\* the text of the call matches none of the rules before the table rule:
\* it is not blank, not repeated, not math and not a list item
MatchesNoEarlierRule == \A j \in 1..4 : ~ClassifyRules[j].matches

\* the text of the call contains two consecutive spaces
HasDoubleSpace == Contains(args[1], <<SP, SP>>)

\* C21: a paragraph text that matches none of rules 1-4 (non-empty, not in
\* the repeated set, no math hint and math score below 2, not a list item)
\* and contains two consecutive spaces is classified table_like.
C21_DoubleSpaceIsTableLike ==
    (fn = "classify_role" /\ ret.returned /\ MatchesNoEarlierRule /\ HasDoubleSpace)
    => ret.value = "table_like"

\* C21 witness: a call on a text with two consecutive spaces that matches
\* none of rules 1-4 has returned
C21_Witness ==
    /\ fn = "classify_role" /\ ret.returned
    /\ MatchesNoEarlierRule /\ HasDoubleSpace
    /\ args[1] = <<"a", SP, SP, "b">>

(***************************************************************************)
(* simpletex.py: SimpleTexMarkdownBackend.pdf_to_markdown, from the opened *)
(* document on.  remote holds its locals: at is the position ("page" at    *)
(* the head of the page loop, "try" at the head of the retry loop,         *)
(* "returned", "raised"), i the page index, and calls[p] the outcomes of   *)
(* the calls of _ocr_page made for page p so far.                          *)
(***************************************************************************)
\* the most pages of a document sent to SimpleTex
MaxRemotePages == 2

\* the largest max_retries
MaxRetries == 1

\* what a call of _ocr_page can come to: a response with status and content,
\* a response with a false status, an exception of the request
RecognitionOutcomes == {"ok", "status_false", "request_failed"}

InitRemote ==
    /\ PipelineIdle
    /\ fn = "pdf_to_markdown"
    /\ \E page_count \in 0..MaxRemotePages, max_retries \in 0..MaxRetries :
         /\ args = <<page_count, max_retries>>
         /\ remote = [at |-> "page", i |-> 0, attempt |-> 0, ok |-> FALSE,
                      last_err |-> None, pages_md |-> <<>>, errors |-> <<>>,
                      calls |-> [p \in 1..page_count |-> <<>>]]
    /\ ret = NotReturned

\* simpletex.py:87-93  the head of one iteration of the page loop: the page
\* is loaded and rendered, outside any try
RemoteStartPage ==
    /\ fn = "pdf_to_markdown"
    /\ remote.at = "page"
    /\ remote.i < args[1]
    /\ \E rendered \in BOOLEAN :
         remote' = IF rendered
                   THEN [remote EXCEPT !.at = "try", !.attempt = 0, !.ok = FALSE,
                                       !.last_err = None]
                   ELSE [remote EXCEPT !.at = "raised"]
    /\ UNCHANGED <<pc, doc, opts, pages_data, warnings, repeated_lines, page_i, blocks,
                   block_i, median_size, segment_index, page_paragraphs, segments,
                   pages_records, ocr_images, ocr_indices, ocr_pages_used, ocr_enabled, mode, env,
                   error, fn, args, ret>>

\* A retry loop that does not count its attempts.
RemoteAttemptUncounted ==
    /\ fn = "pdf_to_markdown"
    /\ remote.at = "try"
    /\ remote.attempt <= args[2] /\ ~remote.ok
    /\ Len(remote.calls[remote.i + 1]) <= args[2] + 1
    /\ \E outcome \in RecognitionOutcomes :
         remote' =
           IF outcome = "ok"
           THEN [remote EXCEPT !.calls[remote.i + 1] = Append(@, outcome),
                               !.pages_md = Append(@, [page |-> remote.i + 1]),
                               !.ok = TRUE]
           ELSE [remote EXCEPT !.calls[remote.i + 1] = Append(@, outcome),
                               !.last_err = <<outcome>>]
    /\ UNCHANGED <<pc, doc, opts, pages_data, warnings, repeated_lines, page_i, blocks,
                   block_i, median_size, segment_index, page_paragraphs, segments,
                   pages_records, ocr_images, ocr_indices, ocr_pages_used, ocr_enabled, mode, env,
                   error, fn, args, ret>>

\* simpletex.py:94-112  one iteration of the retry loop: _ocr_page is
\* called; its result is appended to pages_md, or the exception is kept in
\* last_err and the attempt counted (and the loop sleeps)
RemoteAttempt ==
    /\ fn = "pdf_to_markdown"
    /\ remote.at = "try"
    /\ remote.attempt <= args[2] /\ ~remote.ok
    /\ \E outcome \in RecognitionOutcomes :
         remote' =
           IF outcome = "ok"
           THEN [remote EXCEPT !.calls[remote.i + 1] = Append(@, outcome),
                               !.pages_md = Append(@, [page |-> remote.i + 1]),
                               !.ok = TRUE]
           ELSE [remote EXCEPT !.calls[remote.i + 1] = Append(@, outcome),
                               !.last_err = <<outcome>>,
                               !.attempt = @ + 1]
    /\ UNCHANGED <<pc, doc, opts, pages_data, warnings, repeated_lines, page_i, blocks,
                   block_i, median_size, segment_index, page_paragraphs, segments,
                   pages_records, ocr_images, ocr_indices, ocr_pages_used, ocr_enabled, mode, env,
                   error, fn, args, ret>>

\* simpletex.py:94, 114-115  the retry loop is left: the page is recorded in
\* errors if no attempt succeeded, and the page loop goes on
RemoteEndPage ==
    /\ fn = "pdf_to_markdown"
    /\ remote.at = "try"
    /\ ~(remote.attempt <= args[2] /\ ~remote.ok)
    /\ remote' = [remote EXCEPT
                    !.errors = IF remote.ok THEN @
                               ELSE Append(@, [page |-> remote.i + 1,
                                               error |-> remote.last_err]),
                    !.i = @ + 1,
                    !.at = "page"]
    /\ UNCHANGED <<pc, doc, opts, pages_data, warnings, repeated_lines, page_i, blocks,
                   block_i, median_size, segment_index, page_paragraphs, segments,
                   pages_records, ocr_images, ocr_indices, ocr_pages_used, ocr_enabled, mode, env,
                   error, fn, args, ret>>

\* simpletex.py:117-126  after the last page: the result is returned
RemoteReturn ==
    /\ fn = "pdf_to_markdown"
    /\ remote.at = "page"
    /\ remote.i = args[1]
    /\ remote' = [remote EXCEPT !.at = "returned"]
    /\ ret' = Returned([pages |-> args[1], pages_md |-> remote.pages_md,
                        errors |-> remote.errors])
    /\ UNCHANGED <<pc, doc, opts, pages_data, warnings, repeated_lines, page_i, blocks,
                   block_i, median_size, segment_index, page_paragraphs, segments,
                   pages_records, ocr_images, ocr_indices, ocr_pages_used, ocr_enabled, mode, env,
                   error, fn, args>>

NextRemote == RemoteStartPage \/ RemoteAttempt \/ RemoteEndPage \/ RemoteReturn

SpecRemote == InitRemote /\ [][NextRemote]_vars

\* pdf_to_markdown is one sequential loop: a step that can be taken is taken
FairSpecRemote == SpecRemote /\ WF_vars(NextRemote)

\* the entries of list (pages_md or errors) for page p
EntriesFor(list, p) == {k \in 1..Len(list) : list[k].page = p}

\* the loop has made at most max_retries + 1 calls of _ocr_page for each page
AttemptsBounded ==
    \A p \in 1..args[1] : Len(remote.calls[p]) <= args[2] + 1

\* at the return every page is in exactly one of pages_md and errors, once:
\* in pages_md if a call for it succeeded, in errors if max_retries + 1
\* calls for it failed; so every page has been attempted, whatever came of
\* the pages before it
EachPageSettled ==
    ret.returned
    => \A p \in 1..args[1] :
         LET succeeded == \E n \in 1..Len(remote.calls[p]) : remote.calls[p][n] = "ok"
         IN /\ Len(remote.calls[p]) >= 1
            /\ Cardinality(EntriesFor(ret.value.pages_md, p))
                 = (IF succeeded THEN 1 ELSE 0)
            /\ Cardinality(EntriesFor(ret.value.errors, p))
                 = (IF succeeded THEN 0 ELSE 1)
            /\ ~succeeded => Len(remote.calls[p]) = args[2] + 1

\* C16: pdf_to_markdown makes at most max_retries + 1 recognition attempts
\* for each page and then moves on, so that it ends (returns, or raises when
\* a page cannot be rendered) for every pattern of failures; at the return
\* each page 1..page_count is in exactly one of pages_md (an attempt
\* succeeded) and errors (all attempts failed), and a page whose attempts
\* all fail does not keep a later page from being attempted.
C16_BoundedRetryPerPage ==
    /\ [](fn = "pdf_to_markdown" => (AttemptsBounded /\ EachPageSettled))
    /\ <>(fn = "pdf_to_markdown" /\ remote.at \in {"returned", "raised"})

\* C16 witness: pdf_to_markdown has returned with max_retries = 1, both
\* attempts for page 1 failed, and page 2 recognized at its second attempt
C16_Witness ==
    /\ fn = "pdf_to_markdown" /\ ret.returned
    /\ args[2] = 1 /\ args[1] >= 2
    /\ Len(remote.calls[1]) = 2
    /\ EntriesFor(ret.value.errors, 1) # {}
    /\ remote.calls[2] = <<"request_failed", "ok">>
    /\ EntriesFor(ret.value.pages_md, 2) # {}

====
